---- MODULE Spec2Model ----
(***************************************************************************)
(* A model of the ai-service of budget_planing: the categorization engine  *)
(* (models/categorizer.py), the regex statement extractor                  *)
(* (parsers/pdf_parser.py) and the Gemini parser                           *)
(* (parsers/gemini_pdf_parser.py).                                         *)
(*                                                                         *)
(* A Python str is modelled as a sequence of one-character strings, so     *)
(* that lower(), "in", split(), slicing and the regular expression of      *)
(* _extract_pattern are computed character by character.  A confidence is  *)
(* an integer number of hundredths (0.83 is 83): for 0.8 + 0.03*n and      *)
(* 0.6 + 0.01*n the order of the floats Python computes is the order of    *)
(* these integers.                                                         *)
(***************************************************************************)
EXTENDS Integers, Sequences, FiniteSets, TLC

VARIABLES
    learned_rules,  \* TransactionCategorizer.learned_rules: a list of rule dicts
    rules_file,     \* the content of TransactionCategorizer.rules_file on disk
    call,           \* the last operation on the categorizer: its arguments and result
    before,         \* learned_rules as it was when the last operation started
    threads,        \* the calls running concurrently on the shared engine, each
                    \* with its position in the code and its local variables
    start_rules,    \* learned_rules as it was when the concurrent calls started
    parser_call,    \* the call of a statement parser: its arguments and outcome
    requests,       \* the requests sent to the parsing endpoints, in order of arrival
    work_queue,     \* the calls submitted to executor that no worker has taken
    loop_running    \* the request whose handler holds the event loop's thread, or 0

catVars == <<learned_rules, rules_file, call, before>>
concVars == <<threads, start_rules>>
pdfVars == <<parser_call>>
serverVars == <<requests, work_queue, loop_running>>

\* no request has been sent to the service
NoRequests == requests = <<>> /\ work_queue = <<>> /\ loop_running = 0

----------------------------------------------------------------------------
(* Bounds of the model *)

\* learn is not called on a rule whose learned_from has reached this count
MaxLearned == 6
\* learn does not append to a store that holds this many rules
MaxRules == 2

----------------------------------------------------------------------------
(* Python str operations *)

UpperCase == <<"A","B","C","D","E","F","G","H","I","J","K","L","M",
               "N","O","P","Q","R","S","T","U","V","W","X","Y","Z">>
LowerCase == <<"a","b","c","d","e","f","g","h","i","j","k","l","m",
               "n","o","p","q","r","s","t","u","v","w","x","y","z">>
DigitChars == {"0","1","2","3","4","5","6","7","8","9"}

Range(s) == {s[i] : i \in DOMAIN s}
\* the letters str.lower() changes, and the ones it yields
UpperCaseLetters == Range(UpperCase)
LowerCaseLetters == Range(LowerCase)
MinOf(S) == CHOOSE x \in S : \A y \in S : x <= y
MaxOf(S) == CHOOSE x \in S : \A y \in S : y <= x

IsDigit(c) == c \in DigitChars
IsSpace(c) == c \in {" ", "\t", "\n"}
\* str.isalnum() of one character
IsAlnum(c) == c \in UpperCaseLetters \/ c \in LowerCaseLetters \/ IsDigit(c)
\* \w of the re module
IsWordChar(c) == IsAlnum(c) \/ c = "_"

\* str.lower()
lower(s) ==
    [i \in 1..Len(s) |->
        IF s[i] \in UpperCaseLetters
        THEN LowerCase[CHOOSE k \in 1..26 : UpperCase[k] = s[i]]
        ELSE s[i]]

\* the Python expression  pattern in text
contains(text, pattern) ==
    \E i \in 0..(Len(text) - Len(pattern)) :
        \A j \in 1..Len(pattern) : text[i + j] = pattern[j]

\* str.strip()
strip(s) ==
    LET idx == {i \in 1..Len(s) : ~IsSpace(s[i])}
    IN  IF idx = {} THEN <<>> ELSE SubSeq(s, MinOf(idx), MaxOf(idx))

\* s[:n]
prefix(s, n) == SubSeq(s, 1, IF Len(s) < n THEN Len(s) ELSE n)

\* the length of the longest prefix of s made of word characters
word_length(s) ==
    LET stops == {i \in 1..Len(s) : ~IsWordChar(s[i])}
    IN  IF stops = {} THEN Len(s) ELSE MinOf(stops) - 1

\* str.split() with no argument: the maximal runs of non-whitespace
RECURSIVE split(_)
split(s) ==
    IF s = <<>> THEN <<>>
    ELSE IF IsSpace(Head(s)) THEN split(Tail(s))
    ELSE LET \* the length of the longest prefix of s without whitespace
             stops == {i \in 1..Len(s) : IsSpace(s[i])}
             n == IF stops = {} THEN Len(s) ELSE MinOf(stops) - 1
         IN  <<SubSeq(s, 1, n)>> \o split(SubSeq(s, n + 1, Len(s)))

\* ' '.join(words)
RECURSIVE join(_)
join(words) ==
    IF words = <<>> THEN <<>>
    ELSE IF Len(words) = 1 THEN words[1]
    ELSE words[1] \o <<" ">> \o join(Tail(words))

\* str.isalnum(): non-empty and every character alphanumeric
isalnum(s) == s # <<>> /\ \A i \in 1..Len(s) : IsAlnum(s[i])

zeros(n) == [i \in 1..n |-> "0"]

\* the number a string of digits denotes
RECURSIVE int_of(_)
int_of(digits) ==
    IF digits = <<>> THEN 0
    ELSE 10 * int_of(SubSeq(digits, 1, Len(digits) - 1))
         + (CHOOSE d \in 0..9 : ToString(d) = digits[Len(digits)])

\* the decimal digits of a natural number, at least `width` of them
RECURSIVE digits_of(_, _)
digits_of(n, width) ==
    IF n < 10 THEN zeros(IF width > 1 THEN width - 1 ELSE 0) \o <<ToString(n)>>
    ELSE digits_of(n \div 10, width - 1) \o <<ToString(n % 10)>>

----------------------------------------------------------------------------
(* The inputs of the categorizer's calls *)

\* the descriptions categorize is called with
Descriptions ==
    { <<"A","B","C"," ","G","y","m">>,
      <<"G","y","m">>,
      <<"S","h","o","p"," ","t","h","e"," ","G","y","m">>,
      <<>> }

\* the descriptions learn is called with
LearnDescriptions ==
    { <<"A","B","C"," ","G","y","m">>,
      <<"G","y","m">>,
      <<>> }

\* descriptions for single calls of categorize: none holds a pattern learn
\* derives from LearnDescriptions, and their longest keywords have 11, 4,
\* 17, 14, 16, 6 (in two categories) and 0 characters
KeywordDescriptions ==
    { <<"W","h","o","l","e"," ","F","o","o","d","s"," ","M","a","r","k","e","t">>,
      <<"F","o","o","d"," ","M","a","r","t">>,
      <<"R","e","n","t","e","r","s"," ","I","n","s","u","r","a","n","c","e"," ","C","o">>,
      <<"H","o","m","e"," ","I","n","s","u","r","a","n","c","e">>,
      <<"P","a","y","m","e","n","t"," ","R","e","c","e","i","v","e","d">>,
      <<"S","u","b","w","a","y">>,
      <<"X","Y","Z">> }

CategorizeDescriptions == Descriptions \cup KeywordDescriptions

\* the categories learn is called with
Categories == {"Entertainment", "Shopping"}

----------------------------------------------------------------------------
(* models/categorizer.py: the default keyword table, in dict order *)

default_patterns ==
  <<
    [category |-> "Food & Dining", keywords |-> <<
        <<"g","r","o","c","e","r","y">>, <<"r","e","s","t","a","u","r","a","n","t">>, <<"f","o","o","d">>,
        <<"c","a","f","e">>, <<"c","o","f","f","e","e">>, <<"l","u","n","c","h">>,
        <<"d","i","n","n","e","r">>, <<"b","r","e","a","k","f","a","s","t">>, <<"p","i","z","z","a">>,
        <<"b","u","r","g","e","r">>, <<"s","t","a","r","b","u","c","k","s">>,
        <<"m","c","d","o","n","a","l","d">>, <<"s","u","b","w","a","y">>,
        <<"c","h","i","p","o","t","l","e">>, <<"d","o","m","i","n","o">>, <<"t","a","c","o">>,
        <<"s","u","s","h","i">>, <<"d","e","l","i">>, <<"b","a","k","e","r","y">>,
        <<"m","a","r","k","e","t">>, <<"w","h","o","l","e"," ","f","o","o","d","s">>,
        <<"t","r","a","d","e","r"," ","j","o","e">>, <<"s","a","f","e","w","a","y">>,
        <<"k","r","o","g","e","r">>, <<"p","u","b","l","i","x">> >>],
    [category |-> "Transportation", keywords |-> <<
        <<"g","a","s">>, <<"f","u","e","l">>, <<"u","b","e","r">>, <<"l","y","f","t">>, <<"t","a","x","i">>,
        <<"p","a","r","k","i","n","g">>, <<"t","r","a","n","s","i","t">>, <<"m","e","t","r","o">>,
        <<"b","u","s">>, <<"t","r","a","i","n">>, <<"s","u","b","w","a","y">>, <<"t","o","l","l">>,
        <<"c","a","r"," ","w","a","s","h">>, <<"a","u","t","o">>, <<"s","h","e","l","l">>,
        <<"c","h","e","v","r","o","n">>, <<"e","x","x","o","n">>, <<"b","p">>, <<"m","o","b","i","l">> >>],
    [category |-> "Shopping", keywords |-> <<
        <<"a","m","a","z","o","n">>, <<"w","a","l","m","a","r","t">>, <<"t","a","r","g","e","t">>,
        <<"s","t","o","r","e">>, <<"s","h","o","p">>, <<"m","a","l","l">>, <<"r","e","t","a","i","l">>,
        <<"e","b","a","y">>, <<"e","t","s","y">>, <<"b","e","s","t"," ","b","u","y">>,
        <<"c","o","s","t","c","o">>, <<"i","k","e","a">>, <<"h","o","m","e"," ","d","e","p","o","t">>,
        <<"l","o","w","e","s">> >>],
    [category |-> "Utilities", keywords |-> <<
        <<"e","l","e","c","t","r","i","c">>, <<"w","a","t","e","r">>, <<"g","a","s">>,
        <<"i","n","t","e","r","n","e","t">>, <<"p","h","o","n","e">>, <<"u","t","i","l","i","t","y">>,
        <<"c","o","m","c","a","s","t">>, <<"v","e","r","i","z","o","n">>, <<"a","t","&","t">>,
        <<"s","p","e","c","t","r","u","m">>, <<"x","f","i","n","i","t","y">>, <<"p","o","w","e","r">>,
        <<"e","n","e","r","g","y">>, <<"c","a","b","l","e">>, <<"w","i","r","e","l","e","s","s">> >>],
    [category |-> "Entertainment", keywords |-> <<
        <<"m","o","v","i","e">>, <<"n","e","t","f","l","i","x">>, <<"s","p","o","t","i","f","y">>,
        <<"h","u","l","u">>, <<"d","i","s","n","e","y">>, <<"g","a","m","e">>,
        <<"c","o","n","c","e","r","t">>, <<"t","h","e","a","t","e","r">>, <<"c","i","n","e","m","a">>,
        <<"m","u","s","i","c">>, <<"s","t","r","e","a","m","i","n","g">>, <<"y","o","u","t","u","b","e">>,
        <<"a","p","p","l","e"," ","m","u","s","i","c">>, <<"x","b","o","x">>,
        <<"p","l","a","y","s","t","a","t","i","o","n">>, <<"s","t","e","a","m">> >>],
    [category |-> "Healthcare", keywords |-> <<
        <<"d","o","c","t","o","r">>, <<"p","h","a","r","m","a","c","y">>,
        <<"h","o","s","p","i","t","a","l">>, <<"m","e","d","i","c","a","l">>, <<"h","e","a","l","t","h">>,
        <<"c","l","i","n","i","c">>, <<"c","v","s">>, <<"w","a","l","g","r","e","e","n","s">>,
        <<"r","i","t","e"," ","a","i","d">>, <<"d","e","n","t","a","l">>, <<"d","e","n","t","i","s","t">>,
        <<"v","i","s","i","o","n">>, <<"p","r","e","s","c","r","i","p","t","i","o","n">>,
        <<"m","e","d","i","c","i","n","e">>, <<"u","r","g","e","n","t"," ","c","a","r","e">> >>],
    [category |-> "Housing", keywords |-> <<
        <<"r","e","n","t">>, <<"m","o","r","t","g","a","g","e">>, <<"i","n","s","u","r","a","n","c","e">>,
        <<"h","o","a">>, <<"p","r","o","p","e","r","t","y">>, <<"l","e","a","s","e">>,
        <<"a","p","a","r","t","m","e","n","t">>, <<"c","o","n","d","o">>,
        <<"h","o","m","e"," ","i","n","s","u","r","a","n","c","e">>,
        <<"r","e","n","t","e","r","s"," ","i","n","s","u","r","a","n","c","e">> >>],
    [category |-> "Personal Care", keywords |-> <<
        <<"s","a","l","o","n">>, <<"h","a","i","r","c","u","t">>, <<"s","p","a">>, <<"g","y","m">>,
        <<"f","i","t","n","e","s","s">>, <<"y","o","g","a">>, <<"m","a","s","s","a","g","e">>,
        <<"b","e","a","u","t","y">>, <<"c","o","s","m","e","t","i","c">>, <<"b","a","r","b","e","r">>,
        <<"n","a","i","l">>, <<"p","l","a","n","e","t"," ","f","i","t","n","e","s","s">>,
        <<"l","a"," ","f","i","t","n","e","s","s">> >>],
    [category |-> "Bills & Fees", keywords |-> <<
        <<"b","i","l","l">>, <<"f","e","e">>, <<"c","h","a","r","g","e">>, <<"p","a","y","m","e","n","t">>,
        <<"s","u","b","s","c","r","i","p","t","i","o","n">>, <<"m","e","m","b","e","r","s","h","i","p">>,
        <<"a","n","n","u","a","l"," ","f","e","e">>,
        <<"s","e","r","v","i","c","e"," ","c","h","a","r","g","e">>, <<"l","a","t","e"," ","f","e","e">> >>],
    [category |-> "Income", keywords |-> <<
        <<"s","a","l","a","r","y">>, <<"p","a","y","c","h","e","c","k">>, <<"w","a","g","e">>,
        <<"i","n","c","o","m","e">>, <<"d","e","p","o","s","i","t">>,
        <<"p","a","y","m","e","n","t"," ","r","e","c","e","i","v","e","d">>, <<"r","e","f","u","n","d">>,
        <<"r","e","i","m","b","u","r","s","e","m","e","n","t">>, <<"b","o","n","u","s">>,
        <<"c","o","m","m","i","s","s","i","o","n">> >>]
  >>

\* the words r'\b(purchase|payment|at|from|to|the|a|an)\b' names
common_words ==
    { <<"p","u","r","c","h","a","s","e">>, <<"p","a","y","m","e","n","t">>,
      <<"a","t">>, <<"f","r","o","m">>, <<"t","o">>, <<"t","h","e">>, <<"a">>, <<"a","n">> }

\* re.sub(r'\b(purchase|payment|at|from|to|the|a|an)\b', '', s): an alternative
\* between two \b is a whole maximal run of word characters, which is removed
\* when it is one of the words; everything else stays.
RECURSIVE re_sub_common_words(_)
re_sub_common_words(s) ==
    IF s = <<>> THEN <<>>
    ELSE IF ~IsWordChar(Head(s)) THEN <<Head(s)>> \o re_sub_common_words(Tail(s))
    ELSE LET n == word_length(s)
             w == SubSeq(s, 1, n)
         IN  (IF w \in common_words THEN <<>> ELSE w)
                 \o re_sub_common_words(SubSeq(s, n + 1, Len(s)))

\* the loop of _extract_pattern: the first two words of length >= 3 that are
\* alphabetic or alphanumeric
RECURSIVE significant_words(_, _)
significant_words(words, found) ==
    IF words = <<>> \/ Len(found) >= 2 THEN found
    ELSE IF Len(Head(words)) >= 3 /\ isalnum(Head(words))
         THEN significant_words(Tail(words), Append(found, Head(words)))
         ELSE significant_words(Tail(words), found)

_extract_pattern(description_lower) ==
    LET cleaned == strip(re_sub_common_words(description_lower))
        words == significant_words(split(cleaned), <<>>)
    IN  IF words # <<>> THEN join(words)
        ELSE strip(prefix(description_lower, 30))

\* description.lower() and the pattern learn derives from it; both depend on
\* the description alone and are computed once for the model's descriptions
lowered_descriptions == [d \in CategorizeDescriptions |-> lower(d)]
description_lower_of(description) ==
    IF description \in DOMAIN lowered_descriptions
    THEN lowered_descriptions[description] ELSE lower(description)

extracted_patterns == [d \in Descriptions |-> _extract_pattern(lower(d))]
pattern_of(description) ==
    IF description \in DOMAIN extracted_patterns
    THEN extracted_patterns[description]
    ELSE _extract_pattern(lower(description))

----------------------------------------------------------------------------
(* models/categorizer.py: categorize *)

\* a (category, confidence) result; match is FALSE for Python's None
NoMatch == [match |-> FALSE, category |-> "", confidence |-> 0]
Match(category, confidence) ==
    [match |-> TRUE, category |-> category, confidence |-> confidence]

Minimum(a, b) == IF a < b THEN a ELSE b

\* min(0.8 + (learned_from * 0.03), 0.95), in hundredths
learned_confidence(learned_from) == Minimum(80 + learned_from * 3, 95)

\* min(0.6 + (len(keyword) * 0.01), 0.75), in hundredths
default_confidence(keyword) == Minimum(60 + Len(keyword), 75)

\* the loop of _check_learned_rules from rule i on; best is (best_match,
\* best_confidence), which starts as (None, 0.0)
RECURSIVE check_learned_from(_, _, _, _)
check_learned_from(rules, i, description_lower, best) ==
    IF i > Len(rules) THEN best
    ELSE LET pattern == lower(rules[i].pattern)
             category == rules[i].category
             confidence == learned_confidence(rules[i].learned_from)
         IN  IF pattern = <<>> \/ category = ""
             THEN check_learned_from(rules, i + 1, description_lower, best)
             ELSE IF contains(description_lower, pattern) /\ confidence > best.confidence
             THEN check_learned_from(rules, i + 1, description_lower,
                                     Match(category, confidence))
             ELSE check_learned_from(rules, i + 1, description_lower, best)

_check_learned_rules(rules, description_lower) ==
    check_learned_from(rules, 1, description_lower, NoMatch)

\* the matches list of _check_default_patterns, in the order it is appended to
RECURSIVE keyword_matches(_, _, _)
keyword_matches(category, keywords, description_lower) ==
    IF keywords = <<>> THEN <<>>
    ELSE (IF contains(description_lower, Head(keywords))
          THEN << [category |-> category,
                   confidence |-> default_confidence(Head(keywords)),
                   length |-> Len(Head(keywords))] >>
          ELSE <<>>)
         \o keyword_matches(category, Tail(keywords), description_lower)

RECURSIVE default_matches(_, _)
default_matches(table, description_lower) ==
    IF table = <<>> THEN <<>>
    ELSE keyword_matches(Head(table).category, Head(table).keywords, description_lower)
         \o default_matches(Tail(table), description_lower)

\* _check_default_patterns without the sort: the first match of the table
_check_default_patterns_first_match(description_lower) ==
    LET matches == default_matches(default_patterns, description_lower)
    IN  IF matches = <<>> THEN NoMatch
        ELSE Match(matches[1].category, matches[1].confidence)

\* matches.sort(key=..., reverse=True); matches[0]: the sort is stable, so the
\* first element is the earliest match that no other match sorts before
_check_default_patterns(description_lower) ==
    LET matches == default_matches(default_patterns, description_lower)
        \* x sorts strictly before y under key (confidence, length),
        \* reverse=True
        SortsBefore(x, y) ==
            \/ x.confidence > y.confidence
            \/ x.confidence = y.confidence /\ x.length > y.length
    IN  IF matches = <<>> THEN NoMatch
        ELSE LET first == MinOf({i \in 1..Len(matches) :
                                   \A j \in 1..Len(matches) :
                                       ~SortsBefore(matches[j], matches[i])})
             IN  Match(matches[first].category, matches[first].confidence)

\* the table never changes, so the default match depends on the description
\* alone: it is computed once for each of the model's descriptions
default_results ==
    [d \in {lower(x) : x \in CategorizeDescriptions} |-> _check_default_patterns(d)]
default_match_of(description_lower) ==
    IF description_lower \in DOMAIN default_results
    THEN default_results[description_lower]
    ELSE _check_default_patterns(description_lower)

\* categorize with the two checks in the other order
categorize_default_first(rules, description) ==
    LET description_lower == description_lower_of(description)
        default_match == default_match_of(description_lower)
    IN  IF default_match.match THEN default_match
        ELSE LET learned_match == _check_learned_rules(rules, description_lower)
             IN  IF learned_match.match THEN learned_match
                 ELSE Match("Uncategorized", 30)

\* categorize without the default keyword table
categorize_learned_only(rules, description) ==
    LET learned_match ==
            _check_learned_rules(rules, description_lower_of(description))
    IN  IF learned_match.match THEN learned_match ELSE Match("Uncategorized", 30)

categorize(rules, description) ==
    LET description_lower == description_lower_of(description)
        learned_match == _check_learned_rules(rules, description_lower)
    IN  IF learned_match.match THEN learned_match
        ELSE LET default_match == default_match_of(description_lower)
             IN  IF default_match.match THEN default_match
                 ELSE Match("Uncategorized", 30)

\* a categorize that takes every negative amount for an expense to review
categorize_by_sign(rules, description, amount) ==
    IF amount.negative
    THEN Match("Uncategorized", 30)
    ELSE categorize(rules, description)

\* categorize(description, amount): no statement of lines 108-121 reads amount
categorize_amount(rules, description, amount) == categorize(rules, description)

----------------------------------------------------------------------------
(* models/categorizer.py: learn, clear_learned_rules and the rules file *)

\* a lookup that never finds the rule
find_rule_never(rules, pattern) == 0

\* the loop of learn: the index of the first rule with this pattern, 0 for None
find_rule(rules, pattern) ==
    LET hits == {i \in 1..Len(rules) : rules[i].pattern = pattern}
    IN  IF hits = {} THEN 0 ELSE MinOf(hits)

\* learn without the reset of learned_from when the category changes
learn_rules_keeps_count(rules, description, category) ==
    LET pattern == pattern_of(description)
        existing_rule == find_rule(rules, pattern)
    IN  IF existing_rule # 0
        THEN [rules EXCEPT ![existing_rule].category = category,
                           ![existing_rule].learned_from = @ + 1]
        ELSE Append(rules, [pattern |-> pattern, category |-> category,
                            learned_from |-> 1])

\* learned_rules after the in-memory part of learn
learn_rules(rules, description, category) ==
    LET pattern == pattern_of(description)
        existing_rule == find_rule(rules, pattern)
    IN  IF existing_rule # 0
        THEN IF rules[existing_rule].category = category
             THEN [rules EXCEPT ![existing_rule].learned_from = @ + 1]
             ELSE [rules EXCEPT ![existing_rule].category = category,
                                ![existing_rule].learned_from = 1]
        ELSE Append(rules, [pattern |-> pattern, category |-> category,
                            learned_from |-> 1])

\* the characters of a category of the model
category_text(category) ==
    CASE category = "Entertainment" -> <<"E","n","t","e","r","t","a","i","n","m","e","n","t">>
      [] category = "Shopping" -> <<"S","h","o","p","p","i","n","g">>
      [] OTHER -> <<>>

\* json.dump(self.learned_rules, f, indent=2): the JSON value written, an
\* array of objects, each as its members in dict order; a member is its key
\* and its value, a string (its characters) or a number (its digits)
json_dump(rules) ==
    LET Member(key, json, text) == [key |-> key, json |-> json, text |-> text]
    IN  [i \in 1..Len(rules) |->
            << Member("pattern", "string", rules[i].pattern),
               Member("category", "string", category_text(rules[i].category)),
               Member("learned_from", "number", digits_of(rules[i].learned_from, 1)) >>]

\* json.load(f): the list of dicts the JSON value denotes; the last member
\* of a key is the one the dict keeps
json_load(array) ==
    LET value(object, key) ==
            LET at == {k \in 1..Len(object) : object[k].key = key}
            IN  object[CHOOSE k \in at : \A j \in at : j <= k].text
    IN  [i \in 1..Len(array) |->
            [pattern |-> value(array[i], "pattern"),
             category |-> CHOOSE category \in {"", "Entertainment", "Shopping"} :
                             category_text(category) = value(array[i], "category"),
             learned_from |-> int_of(value(array[i], "learned_from"))]]

RECURSIVE rules_text_length(_)
rules_text_length(rules) ==
    IF rules = <<>> THEN 0
    ELSE 67 + Len(Head(rules).pattern) + Len(category_text(Head(rules).category))
            + (IF Head(rules).learned_from < 10 THEN 1 ELSE 2)
            + (IF Len(rules) > 1 THEN 2 ELSE 0)
            + rules_text_length(Tail(rules))

\* the number of characters json.dump(rules, f, indent=2) writes
json_length(rules) ==
    IF rules = <<>> THEN 2 ELSE 4 + rules_text_length(rules)

\* the file: absent, holding JSON (the value json.dump wrote), or
\* unparseable; size is the number of characters in the file
AbsentFile == [state |-> "absent", json |-> <<>>, size |-> 0]
\* what open(rules_file, 'w') leaves: an empty file, which json.load rejects
TruncatedFile == [state |-> "corrupt", json |-> <<>>, size |-> 0]
JsonFile(rules) ==
    [state |-> "json", json |-> json_dump(rules), size |-> json_length(rules)]

\* how one _save_learned_rules call ends: written; IOError from open (the
\* file is as it was); IOError while writing (the file was truncated by open)
SaveOutcomes == {"written", "open_failed", "write_failed"}

\* a save that writes only when there is no file yet
_save_learned_rules_new_file_only(file, rules, outcome) ==
    IF file.state = "absent" THEN JsonFile(rules) ELSE file

_save_learned_rules(file, rules, outcome) ==
    CASE outcome = "written" -> JsonFile(rules)
      [] outcome = "open_failed" -> file
      [] outcome = "write_failed" -> TruncatedFile

\* learned_rules after __init__: [] unless the file exists and parses
_load_learned_rules(file) ==
    IF file.state = "json" THEN json_load(file.json) ELSE <<>>

----------------------------------------------------------------------------
(* The categorizer as a state machine: one engine, its calls one at a time *)

\* the files an engine is constructed on
InitialFiles ==
    { AbsentFile, TruncatedFile,
      JsonFile(<< [pattern |-> <<"g","y","m">>, category |-> "Shopping",
                   learned_from |-> 1] >>) }

Call(op, description, category, result) ==
    [op |-> op, description |-> description, category |-> category, result |-> result]

\* TransactionCategorizer.__init__
CatInit ==
    /\ rules_file \in InitialFiles
    /\ learned_rules = _load_learned_rules(rules_file)
    /\ call = Call("init", <<>>, "", NoMatch)
    /\ before = <<>>
    /\ threads = <<>>
    /\ start_rules = <<>>
    /\ parser_call = <<>>
    /\ NoRequests

\* TransactionCategorizer.learn(description, category), returning True
Learn(description, category, outcome) ==
    LET pattern == pattern_of(description)
        existing_rule == find_rule(learned_rules, pattern)
    IN  /\ IF existing_rule # 0
           THEN learned_rules[existing_rule].learned_from < MaxLearned
           ELSE Len(learned_rules) < MaxRules
        /\ learned_rules' = learn_rules(learned_rules, description, category)
        /\ rules_file' = _save_learned_rules(rules_file, learned_rules', outcome)
        /\ call' = Call("learn", description, category, NoMatch)
        /\ before' = learned_rules
        /\ UNCHANGED <<concVars, pdfVars, serverVars>>

\* TransactionCategorizer.categorize(description)
Categorize(description) ==
    /\ call' = Call("categorize", description, "", categorize(learned_rules, description))
    /\ before' = learned_rules
    /\ UNCHANGED <<learned_rules, rules_file, concVars, pdfVars, serverVars>>

\* TransactionCategorizer.clear_learned_rules()
ClearLearnedRules(outcome) ==
    /\ learned_rules' = <<>>
    /\ rules_file' = _save_learned_rules(rules_file, learned_rules', outcome)
    /\ call' = Call("clear", <<>>, "", NoMatch)
    /\ before' = learned_rules
    /\ UNCHANGED <<concVars, pdfVars, serverVars>>

\* a new TransactionCategorizer constructed on the same rules file
Restart ==
    /\ learned_rules' = _load_learned_rules(rules_file)
    /\ call' = Call("init", <<>>, "", NoMatch)
    /\ before' = <<>>
    /\ UNCHANGED <<rules_file, concVars, pdfVars, serverVars>>

CatNext ==
    \/ \E d \in LearnDescriptions, c \in Categories : Learn(d, c, "written")
    \/ \E d \in Descriptions : Categorize(d)
    \/ ClearLearnedRules("written")
    \/ Restart

vars == <<learned_rules, rules_file, call, before, threads, start_rules, parser_call,
          requests, work_queue, loop_running>>

Init == CatInit
Next == CatNext
Spec == Init /\ [][Next]_vars

\* The same engine with writes that fail: IOError from open or from the write
\* in _save_learned_rules.  A write fails only while the file still agrees
\* with the store, so the file is never more than one write behind.
FailNext ==
    \/ \E d \in LearnDescriptions, c \in Categories : Learn(d, c, "written")
    \/ \E d \in LearnDescriptions, c \in Categories,
          outcome \in SaveOutcomes \ {"written"} :
            /\ _load_learned_rules(rules_file) = learned_rules
            /\ Learn(d, c, outcome)
    \/ \E d \in Descriptions : Categorize(d)
    \/ ClearLearnedRules("written")
    \/ Restart

SpecFail == Init /\ [][FailNext]_vars

----------------------------------------------------------------------------
(* Calls running concurrently on the engine get_categorizer() shares.  The  *)
(* code takes no lock, so the calls interleave between the statements of    *)
(* learn, _save_learned_rules and _check_learned_rules; each action below   *)
(* is one such statement of one call.                                       *)

Threads == {1, 2}

\* the stores the concurrent calls start from
StartStores ==
    { <<>>,
      << [pattern |-> <<"g","y","m">>, category |-> "Shopping", learned_from |-> 3] >>,
      << [pattern |-> <<"g","y","m">>, category |-> "Shopping", learned_from |-> 3],
         [pattern |-> <<"a","b","c"," ","g","y","m">>, category |-> "Entertainment",
          learned_from |-> 1] >> }

\* a call at its first statement, with its local variables
NewCall(op, description, category) ==
    [op |-> op, description |-> description, category |-> category, pc |-> "start",
     pattern |-> <<>>,        \* learn: pattern
     existing_rule |-> 0,     \* learn: existing_rule, as its index in the list
     count |-> 0,             \* learn: the learned_from read at line 212
     buffer |-> <<>>,         \* _save_learned_rules: what json.dump wrote to f
     i |-> 1,                 \* _check_learned_rules: the position of the loop
     rule_pattern |-> <<>>,   \* _check_learned_rules: pattern
     rule_category |-> "",    \* _check_learned_rules: category
     best |-> NoMatch,        \* _check_learned_rules: best_match, best_confidence
     result |-> NoMatch]     \* categorize: the value returned

LearnCalls == {NewCall("learn", d, c) : d \in LearnDescriptions, c \in Categories}
CategorizeCalls == {NewCall("categorize", d, "") : d \in Descriptions}

\* call 1 is a learn, call 2 a learn or a categorize
ConcInit ==
    /\ start_rules \in StartStores
    /\ learned_rules = start_rules
    /\ rules_file = JsonFile(start_rules)
    /\ threads \in {<<a, b>> : a \in LearnCalls, b \in LearnCalls \cup CategorizeCalls}
    /\ call = Call("init", <<>>, "", NoMatch)
    /\ before = <<>>
    /\ parser_call = <<>>
    /\ NoRequests

At(t, op, pc) == threads[t].op = op /\ threads[t].pc = pc

\* learn, lines 195-199: the pattern is derived from the arguments alone
LearnStart(t) ==
    /\ At(t, "learn", "start")
    /\ threads' = [threads EXCEPT ![t].pattern = pattern_of(threads[t].description),
                                  ![t].pc = "find"]
    /\ UNCHANGED <<learned_rules, rules_file, start_rules, call, before, pdfVars, serverVars>>

\* learn, lines 202-208: the loop that looks the pattern up
LearnFind(t) ==
    /\ At(t, "learn", "find")
    /\ LET found == find_rule(learned_rules, threads[t].pattern)
       IN  threads' = [threads EXCEPT ![t].existing_rule = found,
                                      ![t].pc = IF found # 0 THEN "check_category"
                                                ELSE "append"]
    /\ UNCHANGED <<learned_rules, rules_file, start_rules, call, before, pdfVars, serverVars>>

\* learn, line 210
LearnCheckCategory(t) ==
    /\ At(t, "learn", "check_category")
    /\ threads' = [threads EXCEPT ![t].pc =
            IF learned_rules[threads[t].existing_rule].category = threads[t].category
            THEN "read_count" ELSE "set_category"]
    /\ UNCHANGED <<learned_rules, rules_file, start_rules, call, before, pdfVars, serverVars>>

\* learn, line 212, right-hand side: existing_rule.get("learned_from", 1)
LearnReadCount(t) ==
    /\ At(t, "learn", "read_count")
    /\ threads' = [threads EXCEPT
            ![t].count = learned_rules[threads[t].existing_rule].learned_from,
            ![t].pc = "write_count"]
    /\ UNCHANGED <<learned_rules, rules_file, start_rules, call, before, pdfVars, serverVars>>

\* learn, line 212, the assignment
LearnWriteCount(t) ==
    /\ At(t, "learn", "write_count")
    /\ learned_rules' = [learned_rules EXCEPT
            ![threads[t].existing_rule].learned_from = threads[t].count + 1]
    /\ threads' = [threads EXCEPT ![t].pc = "save_open"]
    /\ UNCHANGED <<rules_file, start_rules, call, before, pdfVars, serverVars>>

\* learn, line 215
LearnSetCategory(t) ==
    /\ At(t, "learn", "set_category")
    /\ learned_rules' = [learned_rules EXCEPT
            ![threads[t].existing_rule].category = threads[t].category]
    /\ threads' = [threads EXCEPT ![t].pc = "set_count"]
    /\ UNCHANGED <<rules_file, start_rules, call, before, pdfVars, serverVars>>

\* learn, line 216
LearnSetCount(t) ==
    /\ At(t, "learn", "set_count")
    /\ learned_rules' = [learned_rules EXCEPT
            ![threads[t].existing_rule].learned_from = 1]
    /\ threads' = [threads EXCEPT ![t].pc = "save_open"]
    /\ UNCHANGED <<rules_file, start_rules, call, before, pdfVars, serverVars>>

\* learn, lines 219-224
LearnAppend(t) ==
    /\ At(t, "learn", "append")
    /\ learned_rules' = Append(learned_rules,
            [pattern |-> threads[t].pattern, category |-> threads[t].category,
             learned_from |-> 1])
    /\ threads' = [threads EXCEPT ![t].pc = "save_open"]
    /\ UNCHANGED <<rules_file, start_rules, call, before, pdfVars, serverVars>>

\* _save_learned_rules, line 92: open(self.rules_file, 'w') truncates the file
SaveOpen(t) ==
    /\ At(t, "learn", "save_open")
    /\ rules_file' = TruncatedFile
    /\ threads' = [threads EXCEPT ![t].pc = "save_dump"]
    /\ UNCHANGED <<learned_rules, start_rules, call, before, pdfVars, serverVars>>

\* _save_learned_rules, line 93: json.dump writes the list into the buffer of f
SaveDump(t) ==
    /\ At(t, "learn", "save_dump")
    /\ threads' = [threads EXCEPT ![t].buffer = learned_rules, ![t].pc = "save_close"]
    /\ UNCHANGED <<learned_rules, rules_file, start_rules, call, before, pdfVars, serverVars>>

\* what the file holds after text of the list `buffer` is written at offset 0
\* of a file opened with 'w': the text, followed by what the file held beyond it
written_over(file, buffer) ==
    IF json_length(buffer) >= file.size THEN JsonFile(buffer)
    ELSE [state |-> "corrupt", json |-> <<>>, size |-> file.size]

\* _save_learned_rules, the end of the with block: f is flushed and closed
SaveClose(t) ==
    /\ At(t, "learn", "save_close")
    /\ rules_file' = written_over(rules_file, threads[t].buffer)
    /\ threads' = [threads EXCEPT ![t].pc = "done"]
    /\ UNCHANGED <<learned_rules, start_rules, call, before, pdfVars, serverVars>>

\* categorize, lines 108-111, and _check_learned_rules, lines 133-134
CategorizeStart(t) ==
    /\ At(t, "categorize", "start")
    /\ threads' = [threads EXCEPT ![t].i = 1, ![t].best = NoMatch, ![t].pc = "next_rule"]
    /\ UNCHANGED <<learned_rules, rules_file, start_rules, call, before, pdfVars, serverVars>>

\* _check_learned_rules, lines 136-138: the next rule of the list, its pattern
\* and its category
CategorizeNextRule(t) ==
    /\ At(t, "categorize", "next_rule")
    /\ threads' =
          IF threads[t].i > Len(learned_rules)
          THEN [threads EXCEPT ![t].pc = "return"]
          ELSE [threads EXCEPT
                  ![t].rule_pattern = lower(learned_rules[threads[t].i].pattern),
                  ![t].rule_category = learned_rules[threads[t].i].category,
                  ![t].pc = "read_count"]
    /\ UNCHANGED <<learned_rules, rules_file, start_rules, call, before, pdfVars, serverVars>>

\* _check_learned_rules, lines 139-152: learned_from is read and the rule judged
CategorizeReadCount(t) ==
    /\ At(t, "categorize", "read_count")
    /\ LET self == threads[t]
           confidence == learned_confidence(learned_rules[self.i].learned_from)
           better == /\ self.rule_pattern # <<>>
                     /\ self.rule_category # ""
                     /\ contains(description_lower_of(self.description), self.rule_pattern)
                     /\ confidence > self.best.confidence
       IN  threads' = [threads EXCEPT
               ![t].best = IF better THEN Match(self.rule_category, confidence) ELSE @,
               ![t].i = @ + 1,
               ![t].pc = "next_rule"]
    /\ UNCHANGED <<learned_rules, rules_file, start_rules, call, before, pdfVars, serverVars>>

\* _check_learned_rules, line 154, and categorize, lines 112-121
CategorizeReturn(t) ==
    /\ At(t, "categorize", "return")
    /\ LET self == threads[t]
           default_match == default_match_of(description_lower_of(self.description))
       IN  threads' = [threads EXCEPT
               ![t].result = IF self.best.match THEN self.best
                             ELSE IF default_match.match THEN default_match
                             ELSE Match("Uncategorized", 30),
               ![t].pc = "done"]
    /\ UNCHANGED <<learned_rules, rules_file, start_rules, call, before, pdfVars, serverVars>>

ConcNext ==
    \E t \in Threads :
        \/ LearnStart(t)
        \/ LearnFind(t)
        \/ LearnCheckCategory(t)
        \/ LearnReadCount(t)
        \/ LearnWriteCount(t)
        \/ LearnSetCategory(t)
        \/ LearnSetCount(t)
        \/ LearnAppend(t)
        \/ SaveOpen(t)
        \/ SaveDump(t)
        \/ SaveClose(t)
        \/ CategorizeStart(t)
        \/ CategorizeNextRule(t)
        \/ CategorizeReadCount(t)
        \/ CategorizeReturn(t)

SpecConc == ConcInit /\ [][ConcNext]_vars

----------------------------------------------------------------------------
(* Claims about the categorizer, checked under Spec *)

\* the pattern the last learn call derived from its description
LearnedPattern == pattern_of(call.description)

\* C1: the store never holds two rules with the same pattern string.
C1_OneRulePerPattern ==
    \A i, j \in 1..Len(learned_rules) :
        learned_rules[i].pattern = learned_rules[j].pattern => i = j

\* a learn call found its pattern in a store of two rules and updated it
C1_Witness ==
    /\ call.op = "learn"
    /\ Len(before) = 2
    /\ \E i \in 1..Len(before) : before[i].pattern = LearnedPattern
    /\ Len(learned_rules) = 2

\* C2: after learn(d, c), categorize(d) returns category c with a confidence
\* above 0.8, whatever rules were learned before.
C2_CorrectionTakesEffect ==
    call.op = "learn" =>
        LET r == categorize(learned_rules, call.description)
        IN  r.category = call.category /\ r.confidence > 80

\* C3: learn(d, c) changes exactly the rule whose pattern is the one derived
\* from d: with category c its learned_from grows by 1; with another category
\* its category becomes c and its learned_from 1; when there is none, one rule
\* (pattern, c, 1) is appended at the end.  Every other rule and the order of
\* the rules stay as they were.
C3_LearnChangesOneRule ==
    call.op = "learn" =>
        LET hits == {i \in 1..Len(before) : before[i].pattern = LearnedPattern}
        IN  IF hits # {}
            THEN /\ Len(learned_rules) = Len(before)
                 /\ \E i \in hits :
                      /\ \A j \in 1..Len(before) : j # i => learned_rules[j] = before[j]
                      /\ learned_rules[i].pattern = LearnedPattern
                      /\ learned_rules[i].category = call.category
                      /\ learned_rules[i].learned_from =
                            IF before[i].category = call.category
                            THEN before[i].learned_from + 1
                            ELSE 1
            ELSE /\ Len(learned_rules) = Len(before) + 1
                 /\ \A j \in 1..Len(before) : learned_rules[j] = before[j]
                 /\ learned_rules[Len(learned_rules)] =
                        [pattern |-> LearnedPattern, category |-> call.category,
                         learned_from |-> 1]

\* learn reinforced the first of two rules
C3_WitnessSameCategory ==
    /\ call.op = "learn"
    /\ Len(before) = 2
    /\ before[1].pattern = LearnedPattern
    /\ before[1].category = call.category
    /\ learned_rules[1].learned_from = 3

\* the rules whose pattern is a substring of the lowercased description
PatternMatches(rules, description) ==
    {i \in 1..Len(rules) :
        contains(lower(description), lower(rules[i].pattern))}

\* those of them that carry a pattern and a category
UsableMatches(rules, description) ==
    {i \in PatternMatches(rules, description) :
        rules[i].pattern # <<>> /\ rules[i].category # ""}

\* the result is the category and confidence of a rule of M whose confidence
\* min(0.8 + 0.03*learned_from, 0.95) no rule of M exceeds
ReturnsBestOf(result, rules, M) ==
    \E i \in M :
        /\ result.category = rules[i].category
        /\ result.confidence = Minimum(80 + 3 * rules[i].learned_from, 95)
        /\ \A j \in M :
              Minimum(80 + 3 * rules[j].learned_from, 95) <= result.confidence

\* C4 as claimed: whenever at least one learned rule's pattern is a substring of
\* the lowercased description, categorize returns the category of the matching
\* learned rule with the highest confidence, whatever the default table holds.
C4_AnyMatchingPatternWins ==
    (call.op = "categorize" /\ PatternMatches(learned_rules, call.description) # {}) =>
        ReturnsBestOf(call.result, learned_rules,
                      PatternMatches(learned_rules, call.description))

\* C4 as amended: whenever at least one learned rule with a non-empty pattern
\* and category has its pattern as a substring of the lowercased description,
\* categorize returns the category and confidence of the one of these rules
\* with the highest confidence (the first in store order among equals), also
\* when a default keyword matches too: the default table has no influence.
C4_LearnedPrecedeDefault ==
    (call.op = "categorize" /\ UsableMatches(learned_rules, call.description) # {}) =>
        LET M == UsableMatches(learned_rules, call.description)
        IN  /\ ReturnsBestOf(call.result, learned_rules, M)
            /\ \E i \in M :
                  /\ call.result.category = learned_rules[i].category
                  /\ call.result.confidence =
                        Minimum(80 + 3 * learned_rules[i].learned_from, 95)
                  /\ \A j \in M : j < i =>
                        Minimum(80 + 3 * learned_rules[j].learned_from, 95)
                            < call.result.confidence

\* categorize returned a learned category for a description in which a default
\* keyword of another category occurs, two learned rules matching
C4_Witness ==
    /\ call.op = "categorize"
    /\ Cardinality(UsableMatches(learned_rules, call.description)) = 2
    /\ _check_default_patterns(lower(call.description)).match
    /\ _check_default_patterns(lower(call.description)).category = "Personal Care"
    /\ call.result.category = "Entertainment"

\* C5: a learn call that reinforces a rule (same pattern, same category)
\* strictly increases the confidence categorize returns for its description
\* while that confidence is below 0.95, and the confidence never exceeds 0.95.
C5_ReinforcementRaisesConfidence ==
    (/\ call.op = "learn"
     /\ \E i \in 1..Len(before) :
           before[i].pattern = LearnedPattern /\ before[i].category = call.category) =>
        LET old == categorize(before, call.description).confidence
            new == categorize(learned_rules, call.description).confidence
        IN  /\ old < 95 => new > old
            /\ new <= 95

\* C17: after any sequence of learn and clear_learned_rules calls whose
\* writes succeed, the persisted rule file holds exactly the in-memory rule
\* list, so a new engine constructed on the same file returns the same
\* (category, confidence) as the original for every description.
C17_FileHoldsTheStore ==
    /\ call.op \in {"learn", "clear"} =>
          rules_file.state = "json" /\ json_load(rules_file.json) = learned_rules
    /\ LET new_engine == _load_learned_rules(rules_file)
       IN  \A description \in Descriptions :
               categorize(new_engine, description) = categorize(learned_rules, description)

\* learn updated one of two rules in place over a file that held the store
\* before, and a new engine on the file answers with a learned rule
C17_Witness ==
    /\ call.op = "learn"
    /\ Len(before) = 2 /\ Len(learned_rules) = 2 /\ before # learned_rules
    /\ rules_file.state = "json" /\ json_load(rules_file.json) = learned_rules
    /\ \E i \in 1..2 : learned_rules[i].learned_from >= 2
    /\ categorize(_load_learned_rules(rules_file), <<"A","B","C"," ","G","y","m">>).confidence >= 83

\* the last call was a learn whose write failed: the file does not hold the
\* store
LearnFailedToSave ==
    call.op = "learn" /\ _load_learned_rules(rules_file) # learned_rules

\* C18, under SpecFail: if persisting the rule store fails during learn, learn
\* still returns and the in-memory store holds the update, so a following
\* categorize on the same engine reflects the learned rule: it returns the
\* category learned for the description, with the confidence of its rule.
C18_FailedSaveStillTakesEffect ==
    LearnFailedToSave =>
        /\ learned_rules = learn_rules(before, call.description, call.category)
        /\ \E i \in 1..Len(learned_rules) :
              /\ learned_rules[i].pattern = LearnedPattern
              /\ learned_rules[i].category = call.category
              /\ categorize(learned_rules, call.description)
                    = Match(call.category,
                            Minimum(80 + 3 * learned_rules[i].learned_from, 95))

----------------------------------------------------------------------------
(* Claims about concurrent calls, under SpecConc.                           *)

AllDone == threads # <<>> /\ \A t \in Threads : threads[t].pc = "done"
BothLearn == threads # <<>> /\ \A t \in Threads : threads[t].op = "learn"
SamePattern == pattern_of(threads[1].description) = pattern_of(threads[2].description)
RulesWith(rules, pattern) == {i \in 1..Len(rules) : rules[i].pattern = pattern}

\* C6: when two learn calls run concurrently on the shared engine, no update
\* is lost: two calls for the same pattern and category leave learned_from
\* exactly 2 higher than before, two calls for a new pattern create exactly
\* one rule, and the persisted store ends equal to the in-memory store.
C6_NoLostUpdate ==
    (AllDone /\ BothLearn) =>
        LET pattern == pattern_of(threads[1].description)
            was == find_rule(start_rules, pattern)
            now == find_rule(learned_rules, pattern)
        IN  /\ ( /\ SamePattern
                 /\ threads[1].category = threads[2].category
                 /\ was # 0
                 /\ start_rules[was].category = threads[1].category )
                => /\ now # 0
                   /\ learned_rules[now].learned_from = start_rules[was].learned_from + 2
            /\ (SamePattern /\ was = 0)
                => Cardinality(RulesWith(learned_rules, pattern)) = 1
            /\ rules_file = JsonFile(learned_rules)

\* C7: a categorize call running concurrently with a learn call returns what
\* categorize would return either entirely before or entirely after that
\* learn, never a mixture of the two states of a rule.
C7_ConsistentSnapshot ==
    (threads # <<>> /\ At(2, "categorize", "done")) =>
        threads[2].result \in
            { categorize(start_rules, threads[2].description),
              categorize(learn_rules(start_rules, threads[1].description,
                                     threads[1].category),
                         threads[2].description) }

----------------------------------------------------------------------------
(* parsers/pdf_parser.py: Python str and float operations.                  *)
(* The one-character string "U+0142" stands for the letter l with stroke    *)
(* of the currency marker of line 222.                                      *)

\* str.startswith(prefix) for the str s
startswith(s, p) == Len(p) <= Len(s) /\ SubSeq(s, 1, Len(p)) = p

\* str.replace(old, new), old not empty: the occurrences from left to right
RECURSIVE replace(_, _, _)
replace(s, old, new) ==
    IF Len(s) < Len(old) THEN s
    ELSE IF startswith(s, old)
         THEN new \o replace(SubSeq(s, Len(old) + 1, Len(s)), old, new)
         ELSE <<Head(s)>> \o replace(Tail(s), old, new)

\* str.find(c) for one character, as a position from 1; 0 when c is absent
find(s, c) ==
    LET idx == {i \in 1..Len(s) : s[i] = c}
    IN  IF idx = {} THEN 0 ELSE MinOf(idx)

\* str.rfind(c) for one character, as a position from 1; 0 when c is absent
rfind(s, c) ==
    LET idx == {i \in 1..Len(s) : s[i] = c}
    IN  IF idx = {} THEN 0 ELSE MaxOf(idx)

\* str.isdigit(): non-empty and every character a digit
isdigit(s) == s # <<>> /\ \A i \in 1..Len(s) : IsDigit(s[i])

\* s[n:] with n counted from 0
suffix(s, n) == SubSeq(s, n + 1, Len(s))

(* A float is a record: kind is "finite", "inf" or "nan"; negative is the   *)
(* sign bit (a nan has none); whole and fraction are the decimal digits     *)
(* before and after the point, without leading and trailing zeros, so that  *)
(* two finite floats are equal exactly when their records agree apart from  *)
(* the sign of zero.  The digit strings of the model are short enough for   *)
(* the decimal value to be the float Python computes (at most 15            *)
(* significant digits).                                                     *)
Float(kind, negative, whole, fraction) ==
    [kind |-> kind, negative |-> negative, whole |-> whole, fraction |-> fraction]
NaN == Float("nan", FALSE, <<>>, <<>>)
\* what float(s) is when it raises ValueError
ValueError == Float("ValueError", FALSE, <<>>, <<>>)

RECURSIVE without_leading_zeros(_)
without_leading_zeros(digits) ==
    IF digits # <<>> /\ Head(digits) = "0" THEN without_leading_zeros(Tail(digits))
    ELSE digits

RECURSIVE without_trailing_zeros(_)
without_trailing_zeros(digits) ==
    IF digits # <<>> /\ digits[Len(digits)] = "0"
    THEN without_trailing_zeros(SubSeq(digits, 1, Len(digits) - 1))
    ELSE digits



\* float(s) for a str s
float(s) ==
    LET \* the digits of a float literal: digits with single underscores
        \* between them
        is_digitpart(t) ==
            /\ t # <<>>
            /\ \A i \in 1..Len(t) : IsDigit(t[i]) \/ t[i] = "_"
            /\ IsDigit(t[1]) /\ IsDigit(t[Len(t)])
            /\ \A i \in 1..(Len(t) - 1) : ~(t[i] = "_" /\ t[i + 1] = "_")
        \* the finite float  whole.fraction * 10^exponent
        scaled(whole, fraction, exponent) ==
            LET all == whole \o fraction
                point == Len(whole) + exponent
                w == IF point <= 0 THEN <<>>
                     ELSE IF point >= Len(all) THEN all \o zeros(point - Len(all))
                     ELSE SubSeq(all, 1, point)
                f == IF point <= 0 THEN zeros(0 - point) \o all
                     ELSE IF point >= Len(all) THEN <<>>
                     ELSE SubSeq(all, point + 1, Len(all))
            IN  Float("finite", FALSE, without_leading_zeros(w), without_trailing_zeros(f))
        \* the float with the digits `whole` before the point, `fraction`
        \* after it and the exponent given by its sign and digits
        number_of(whole, fraction, exp_negative, exp_digits, has_exp) ==
            IF /\ ~has_exp \/ is_digitpart(exp_digits)
               /\ whole = <<>> \/ is_digitpart(whole)
               /\ fraction = <<>> \/ is_digitpart(fraction)
               /\ whole # <<>> \/ fraction # <<>>
            THEN scaled(replace(whole, <<"_">>, <<>>), replace(fraction, <<"_">>, <<>>),
                        IF ~has_exp THEN 0
                        ELSE IF exp_negative
                        THEN 0 - int_of(replace(exp_digits, <<"_">>, <<>>))
                        ELSE int_of(replace(exp_digits, <<"_">>, <<>>)))
            ELSE ValueError
        \* the float of a mantissa and of what follows its e
        mantissa_exponent(mantissa, exp, has_exp) ==
            number_of(IF rfind(mantissa, ".") = 0 THEN mantissa
                      ELSE SubSeq(mantissa, 1, rfind(mantissa, ".") - 1),
                      IF rfind(mantissa, ".") = 0 THEN <<>>
                      ELSE suffix(mantissa, rfind(mantissa, ".")),
                      exp # <<>> /\ Head(exp) = "-",
                      IF exp # <<>> /\ Head(exp) \in {"+", "-"} THEN Tail(exp) ELSE exp,
                      has_exp)
        \* a decimal literal without sign: digits, point, exponent
        float_of_number(t) ==
            LET es == {i \in 1..Len(t) : t[i] \in {"e", "E"}}
            IN  IF es = {} THEN mantissa_exponent(t, <<>>, FALSE)
                ELSE mantissa_exponent(SubSeq(t, 1, MinOf(es) - 1),
                                       suffix(t, MinOf(es)), TRUE)
        \* a literal without sign
        float_of_unsigned(body) ==
            IF body = <<"n","a","n">> THEN NaN
            ELSE IF body \in { <<"i","n","f">>, <<"i","n","f","i","n","i","t","y">> }
            THEN Float("inf", FALSE, <<>>, <<>>)
            ELSE float_of_number(body)
        \* the float `value` with the sign the literal has
        with_sign(value, negative) ==
            IF value \in {ValueError, NaN} THEN value
            ELSE [value EXCEPT !.negative = negative]
        float_of_stripped(stripped) ==
            IF stripped # <<>> /\ Head(stripped) \in {"+", "-"}
            THEN with_sign(float_of_unsigned(lower(Tail(stripped))), Head(stripped) = "-")
            ELSE float_of_unsigned(lower(stripped))
    IN  float_of_stripped(strip(s))

is_zero(x) == x.kind = "finite" /\ x.whole = <<>> /\ x.fraction = <<>>
\* x < 0, which is False for nan
less_than_zero(x) == x.kind # "nan" /\ x.negative /\ ~is_zero(x)
\* x >= 0, which is False for nan
at_least_zero(x) == x.kind # "nan" /\ (~x.negative \/ is_zero(x))
\* -x
negated(x) == IF x = NaN THEN NaN ELSE [x EXCEPT !.negative = ~x.negative]
\* abs(x)
abs(x) == [x EXCEPT !.negative = FALSE]
\* x == y: nan equals nothing, 0.0 equals -0.0
float_eq(x, y) ==
    /\ x.kind # "nan" /\ y.kind # "nan"
    /\ \/ is_zero(x) /\ is_zero(y)
       \/ x = y

----------------------------------------------------------------------------
(* parsers/pdf_parser.py: PDFParser *)

\* the None that _parse_amount returns
None == Float("None", FALSE, <<>>, <<>>)

\* an amount parser for which every comma is a decimal separator
_parse_amount_decimal_comma(amount_str) ==
    LET number == float(replace(replace(replace(replace(replace(amount_str,
                      <<"$">>, <<>>), <<"P", "L", "N">>, <<>>), <<"z", "U+0142">>, <<>>),
                      <<" ">>, <<>>), <<",">>, <<".">>))
    IN  IF number = ValueError THEN None ELSE number

\* PDFParser._parse_amount: a float, or None
_parse_amount(amount_str) ==
    LET \* lines 222-225: currency markers and spaces removed
        without_currency ==
            replace(strip(replace(replace(replace(amount_str,
                <<"$">>, <<>>), <<"P", "L", "N">>, <<>>), <<"z", "U+0142">>, <<>>)),
                <<" ">>, <<>>)
        \* lines 231-273: the separators of the text `cleaned` resolved,
        \* given the positions of its last comma and its last period
        resolve_separators(cleaned, comma, period) ==
            IF comma # 0 /\ period # 0
            THEN IF comma > period
                 THEN replace(replace(cleaned, <<".">>, <<>>), <<",">>, <<".">>)
                 ELSE replace(cleaned, <<",">>, <<>>)
            ELSE IF comma # 0
            THEN IF Len(cleaned) - comma = 2 /\ isdigit(suffix(cleaned, comma))
                 THEN replace(cleaned, <<",">>, <<".">>)
                 ELSE IF Len(cleaned) - comma > 2 THEN replace(cleaned, <<",">>, <<>>)
                 ELSE replace(cleaned, <<",">>, <<".">>)
            ELSE IF period # 0
            THEN IF Len(cleaned) - period = 2 /\ isdigit(suffix(cleaned, period))
                 THEN cleaned
                 ELSE IF Len(cleaned) - period > 2 THEN replace(cleaned, <<".">>, <<>>)
                 ELSE cleaned
            ELSE cleaned
        with_separators_resolved(cleaned) ==
            resolve_separators(cleaned, rfind(cleaned, ","), rfind(cleaned, "."))
        \* lines 276-281: the text float() is applied to
        unsigned_amount(cleaned) ==
            IF startswith(cleaned, <<"-">>) \/ startswith(cleaned, <<"(">>)
            THEN strip(replace(replace(replace(cleaned,
                     <<"(">>, <<>>), <<")">>, <<>>), <<"-">>, <<>>))
            ELSE IF startswith(cleaned, <<"+">>) THEN strip(Tail(cleaned))
            ELSE cleaned
        \* lines 283-290: the float with its sign, None for ValueError
        signed_amount(amount, is_negative) ==
            IF amount = ValueError THEN None
            ELSE IF is_negative THEN negated(amount)
            ELSE amount
        amount_of_cleaned(cleaned) ==
            signed_amount(float(unsigned_amount(cleaned)),
                          startswith(cleaned, <<"-">>) \/ startswith(cleaned, <<"(">>))
    IN  amount_of_cleaned(with_separators_resolved(without_currency))

\* PDFParser._is_amount
_is_amount(text) ==
    float(strip(replace(replace(text, <<"$">>, <<>>), <<",">>, <<>>))) # ValueError

\* the None that _parse_date returns; no date is the empty str
NoDate == <<>>

\* str.split(sep) for one character
RECURSIVE split_on(_, _)
split_on(s, sep) ==
    LET at == {i \in 1..Len(s) : s[i] = sep}
    IN  IF at = {} THEN <<s>>
        ELSE <<SubSeq(s, 1, MinOf(at) - 1)>> \o split_on(suffix(s, MinOf(at)), sep)


\* PDFParser._parse_date, lines 189-198: each format as its separator and the
\* order of its directives
date_formats ==
    << [sep |-> ".", directives |-> <<"d", "m", "Y">>],
       [sep |-> ".", directives |-> <<"d", "m", "y">>],
       [sep |-> "/", directives |-> <<"m", "d", "Y">>],
       [sep |-> "-", directives |-> <<"m", "d", "Y">>],
       [sep |-> "/", directives |-> <<"d", "m", "Y">>],
       [sep |-> "-", directives |-> <<"d", "m", "Y">>],
       [sep |-> "/", directives |-> <<"m", "d", "y">>],
       [sep |-> "-", directives |-> <<"m", "d", "y">>],
       [sep |-> "/", directives |-> <<"d", "m", "y">>],
       [sep |-> "-", directives |-> <<"d", "m", "y">>],
       [sep |-> "-", directives |-> <<"Y", "m", "d">>],
       [sep |-> "/", directives |-> <<"Y", "m", "d">>] >>

\* datetime.strptime(date_str, fmt): the date, or ok = FALSE for ValueError
strptime(date_str, fmt) ==
    LET \* whether the field is read as the directive: %d and %m take one
        \* or two digits, %Y four and %y two; %d also takes a space and one
        \* digit
        field_matches(field, directive) ==
            \/ /\ isdigit(field)
               /\ CASE directive = "d" -> Len(field) <= 2 /\ int_of(field) \in 1..31
                    [] directive = "m" -> Len(field) <= 2 /\ int_of(field) \in 1..12
                    [] directive = "Y" -> Len(field) = 4 /\ int_of(field) >= 1
                    [] directive = "y" -> Len(field) = 2
            \/ /\ directive = "d"
               /\ Len(field) = 2 /\ field[1] = " " /\ field[2] \in DigitChars \ {"0"}
        \* the year of %y
        century_year(yy) == IF yy <= 68 THEN 2000 + yy ELSE 1900 + yy
        is_leap(year) == year % 4 = 0 /\ (year % 100 # 0 \/ year % 400 = 0)
        days_in_month(year, month) ==
            IF month = 2 THEN (IF is_leap(year) THEN 29 ELSE 28)
            ELSE IF month \in {4, 6, 9, 11} THEN 30
            ELSE 31
        \* the date of the fields of a format
        date_of_fields(fields, directives) ==
            LET at(directive) == CHOOSE k \in 1..3 : directives[k] = directive
                year == IF \E k \in 1..3 : directives[k] = "Y"
                        THEN int_of(fields[at("Y")])
                        ELSE century_year(int_of(fields[at("y")]))
                month == int_of(fields[at("m")])
                day == int_of(SelectSeq(fields[at("d")], LAMBDA c : c # " "))
            IN  IF /\ Len(fields) = 3
                   /\ \A k \in 1..3 : field_matches(fields[k], directives[k])
                   /\ day <= days_in_month(year, month)
                THEN [ok |-> TRUE, year |-> year, month |-> month, day |-> day]
                ELSE [ok |-> FALSE, year |-> 0, month |-> 0, day |-> 0]
    IN  date_of_fields(split_on(date_str, fmt.sep), fmt.directives)

\* dt.strftime('%Y-%m-%d'); the C library of Linux does not pad a year below 1000
strftime(dt) ==
    digits_of(dt.year, 1) \o <<"-">> \o digits_of(dt.month, 2) \o <<"-">>
        \o digits_of(dt.day, 2)

\* PDFParser._parse_date: the date as YYYY-MM-DD, or None
_parse_date(date_str) ==
    LET \* the first of the results of strptime that is a date
        first_parsed(results) ==
            LET parsing == {k \in 1..Len(results) : results[k].ok}
            IN  IF parsing = {} THEN NoDate ELSE strftime(results[MinOf(parsing)])
    IN  first_parsed([k \in 1..Len(date_formats) |->
                         strptime(strip(date_str), date_formats[k])])

\* PDFParser._clean_description
_clean_description(description) ==
    LET \* re.sub(r'\s+\d+$', '', d)
        without_trailing_number(d) ==
            LET starts == {i \in 1..Len(d) :
                              /\ IsSpace(d[i])
                              /\ \E j \in (i + 1)..Len(d) :
                                    /\ \A k \in i..(j - 1) : IsSpace(d[k])
                                    /\ \A k \in j..Len(d) : IsDigit(d[k])}
            IN  IF starts = {} THEN d ELSE SubSeq(d, 1, MinOf(starts) - 1)
        \* re.sub(r'^\d+\s+', '', d)
        without_leading_number(d) ==
            LET digits == {i \in 1..Len(d) : \A k \in 1..i : IsDigit(d[k])}
                rest == suffix(d, IF digits = {} THEN 0 ELSE MaxOf(digits))
                spaces == {i \in 1..Len(rest) : \A k \in 1..i : IsSpace(rest[k])}
            IN  IF digits = {} \/ spaces = {} THEN d
                ELSE suffix(rest, MaxOf(spaces))
    IN  strip(prefix(without_leading_number(without_trailing_number(
                  join(split(description)))), 200))

----------------------------------------------------------------------------
(* The regular expressions of PDFParser.TRANSACTION_PATTERNS, matched as    *)
(* the re module matches them: a pattern is a sequence of atoms, an atom is *)
(* tried in the order of its alternatives (a greedy repetition from the     *)
(* longest run down, a lazy one from the shortest up) and the first way for *)
(* the whole pattern to match is the match.                                 *)

TRANSACTION_PATTERNS ==
    LET Atom(type, chars, complement, min, max, greedy, group, alternatives) ==
            [type |-> type, chars |-> chars, complement |-> complement,
             min |-> min, max |-> max, greedy |-> greedy, group |-> group,
             alternatives |-> alternatives]
        \* c{min,max} for a character class; max = -1 is no upper limit
        Rep(chars, min, max) == Atom("rep", chars, FALSE, min, max, TRUE, 0, <<>>)
        One(chars) == Rep(chars, 1, 1)
        Optional(chars) == Rep(chars, 0, 1)
        Plus(chars) == Rep(chars, 1, -1)
        Star(chars) == Rep(chars, 0, -1)
        \* .+?  (the dot is every character but the newline)
        LazyDotPlus == Atom("rep", {"\n"}, TRUE, 1, -1, FALSE, 0, <<>>)
        \* ( and ) of the capturing group k
        Open(k) == Atom("open", {}, FALSE, 0, 0, TRUE, k, <<>>)
        Close(k) == Atom("close", {}, FALSE, 0, 0, TRUE, k, <<>>)
        \* (?:a|b|...) with each alternative a sequence of atoms
        Alternation(alternatives) == Atom("alt", {}, FALSE, 0, 0, TRUE, 0, alternatives)
        \* (?=a|b|...)
        Lookahead(alternatives) == Atom("look", {}, FALSE, 0, 0, TRUE, 0, alternatives)
        \* $ under re.MULTILINE
        EndOfLine == Atom("eol", {}, FALSE, 0, 0, TRUE, 0, <<>>)
        \* a literal string
        Literal(s) == [i \in 1..Len(s) |-> One({s[i]})]
        \* \s
        Whitespace == {" ", "\t", "\n"}
    IN
    << \* (\d{1,2}\.\d{1,2}\.\d{2,4})\s+(.+?)\s+([+-]?\s*[\d\s]+[,.]?\d{0,2})\s*(?:PLN|zl)?
       << Open(1), Rep(DigitChars, 1, 2), One({"."}), Rep(DigitChars, 1, 2), One({"."}),
          Rep(DigitChars, 2, 4), Close(1), Plus(Whitespace),
          Open(2), LazyDotPlus, Close(2), Plus(Whitespace),
          Open(3), Optional({"+", "-"}), Star(Whitespace),
          Plus(DigitChars \cup Whitespace), Optional({",", "."}),
          Rep(DigitChars, 0, 2), Close(3),
          Star(Whitespace),
          Alternation(<<Literal(<<"P", "L", "N">>), Literal(<<"z", "U+0142">>), <<>> >>) >>,
       \* (\d{1,2}[/-]\d{1,2}[/-]\d{2,4})\s+([+-]?\$?\s*[\d,]+\.?\d*)\s+(.+?)(?=\d{1,2}[/-]|\n|$)
       << Open(1), Rep(DigitChars, 1, 2), One({"/", "-"}), Rep(DigitChars, 1, 2),
          One({"/", "-"}), Rep(DigitChars, 2, 4), Close(1), Plus(Whitespace),
          Open(2), Optional({"+", "-"}), Optional({"$"}), Star(Whitespace),
          Plus(DigitChars \cup {","}), Optional({"."}), Star(DigitChars), Close(2),
          Plus(Whitespace), Open(3), LazyDotPlus, Close(3),
          Lookahead(<< <<Rep(DigitChars, 1, 2), One({"/", "-"})>>,
                       <<One({"\n"})>>,
                       <<EndOfLine>> >>) >>,
       \* (\d{1,2}[/-]\d{1,2}[/-]\d{2,4})\s+(.+?)\s+([+-]?\$?\s*[\d,]+\.?\d{2})
       << Open(1), Rep(DigitChars, 1, 2), One({"/", "-"}), Rep(DigitChars, 1, 2),
          One({"/", "-"}), Rep(DigitChars, 2, 4), Close(1), Plus(Whitespace),
          Open(2), LazyDotPlus, Close(2), Plus(Whitespace),
          Open(3), Optional({"+", "-"}), Optional({"$"}), Star(Whitespace),
          Plus(DigitChars \cup {","}), Optional({"."}), Rep(DigitChars, 2, 2), Close(3) >>,
       \* (\d{4}-\d{2}-\d{2})\s+(.+?)\s+([+-]?\$?\s*[\d,]+\.?\d{2})
       << Open(1), Rep(DigitChars, 4, 4), One({"-"}), Rep(DigitChars, 2, 2), One({"-"}),
          Rep(DigitChars, 2, 2), Close(1), Plus(Whitespace),
          Open(2), LazyDotPlus, Close(2), Plus(Whitespace),
          Open(3), Optional({"+", "-"}), Optional({"$"}), Star(Whitespace),
          Plus(DigitChars \cup {","}), Optional({"."}), Rep(DigitChars, 2, 2), Close(3) >>,
       \* (\d{1,2}\.\d{1,2}\.\d{4})\s+(.+?)\s+([+-]?\s*[\d\s]+,\d{2})
       << Open(1), Rep(DigitChars, 1, 2), One({"."}), Rep(DigitChars, 1, 2), One({"."}),
          Rep(DigitChars, 4, 4), Close(1), Plus(Whitespace),
          Open(2), LazyDotPlus, Close(2), Plus(Whitespace),
          Open(3), Optional({"+", "-"}), Star(Whitespace),
          Plus(DigitChars \cup Whitespace), One({","}), Rep(DigitChars, 2, 2), Close(3) >> >>

\* the result of matching: ok, the position after the match, and for each
\* group the positions it starts at and ends before
NoMatchAt == [ok |-> FALSE, end |-> 0, groups |-> <<>>]
NoGroups == [k \in 1..3 |-> [start |-> 0, end |-> 0]]

\* The atoms matched against text from position i, the groups so far given.
\* A greedy repetition takes the most characters after which the rest of the
\* pattern matches, a lazy one the fewest: the first such number in the
\* order in which the re module tries them.
RECURSIVE match_atoms(_, _, _, _)
match_atoms(atoms, text, i, groups) ==
    IF atoms = <<>> THEN [ok |-> TRUE, end |-> i, groups |-> groups]
    ELSE LET atom == Head(atoms)
             rest == Tail(atoms)
             \* how many characters from position i on the repetition can take
             run_length ==
                 LET limit == IF atom.max = -1 \/ i + atom.max > Len(text) + 1
                              THEN Len(text) + 1 - i ELSE atom.max
                     stops == {n \in 1..limit :
                                  (text[i + n - 1] \in atom.chars) = atom.complement}
                 IN  IF stops = {} THEN limit ELSE MinOf(stops) - 1
             \* of the matches of the rest of the pattern after the repetition
             \* has taken n characters, the one the re module finds first
             preferred(successes, greedy) ==
                 IF successes = {} THEN NoMatchAt
                 ELSE (CHOOSE t \in successes :
                         \A u \in successes :
                             IF greedy THEN u.n <= t.n ELSE u.n >= t.n).match
             first == match_atoms(Head(atom.alternatives) \o rest, text, i, groups)
             others == [atom EXCEPT !.alternatives = Tail(@)]
             taking == {[n |-> n, match |-> match_atoms(rest, text, i + n, groups)] :
                           n \in atom.min..run_length}
         IN  CASE atom.type = "open" ->
                    match_atoms(rest, text, i, [groups EXCEPT ![atom.group].start = i])
               [] atom.type = "close" ->
                    match_atoms(rest, text, i, [groups EXCEPT ![atom.group].end = i])
               [] atom.type = "eol" ->
                    IF i = Len(text) + 1 \/ text[i] = "\n"
                    THEN match_atoms(rest, text, i, groups) ELSE NoMatchAt
               [] atom.type = "eos" ->
                    IF i = Len(text) + 1 \/ (i = Len(text) /\ text[i] = "\n")
                    THEN match_atoms(rest, text, i, groups) ELSE NoMatchAt
               [] atom.type = "look" ->
                    IF match_atoms(<<[atom EXCEPT !.type = "alt"]>>, text, i, groups).ok
                    THEN match_atoms(rest, text, i, groups) ELSE NoMatchAt
               [] atom.type = "alt" ->
                    IF atom.alternatives = <<>> THEN NoMatchAt
                    ELSE IF first.ok THEN first
                    ELSE match_atoms(<<others>> \o rest, text, i, groups)
               [] atom.type = "rep" ->
                    preferred({t \in taking : t.match.ok}, atom.greedy)

\* match.groups() of the matches re.finditer(pattern, text, re.MULTILINE)
\* finds from position i on: the leftmost match, then the matches after its
\* end.  No pattern here matches the empty string.
RECURSIVE finditer(_, _, _)
finditer(pattern, text, i) ==
    LET \* the groups of the match m, and the matches after it
        groups_and_rest(m) ==
            << [k \in 1..3 |-> SubSeq(text, m.groups[k].start, m.groups[k].end - 1)] >>
            \o finditer(pattern, text, m.end)
        \* the matches, given the positions from i on at which the pattern
        \* matches
        matches_from(starts) ==
            IF starts = {} THEN <<>>
            ELSE groups_and_rest(match_atoms(pattern, text, MinOf(starts), NoGroups))
    IN  matches_from({j \in i..Len(text) : match_atoms(pattern, text, j, NoGroups).ok})

\* a transaction dict of the extractor
Transaction(date, amount, description, type) ==
    [date |-> date, amount |-> amount, description |-> description, type |-> type]
\* the None that _parse_transaction_match returns
NoTransaction == Transaction(NoDate, None, <<>>, "None")

\* PDFParser._parse_transaction_match for match.groups()
_parse_transaction_match(groups) ==
    LET \* lines 146-166, for the results of _parse_date and _parse_amount
        transaction_of(parsed_date, amount, description) ==
            IF parsed_date = NoDate THEN NoTransaction
            ELSE IF amount = None THEN NoTransaction
            ELSE Transaction(parsed_date, abs(amount), _clean_description(description),
                             IF less_than_zero(amount) THEN "expense" ELSE "income")
        \* lines 134-166, for the result of _is_amount(groups[1])
        transaction_of_groups(second_is_amount) ==
            transaction_of(_parse_date(groups[1]),
                           _parse_amount(IF second_is_amount THEN groups[2]
                                         ELSE groups[3]),
                           IF second_is_amount THEN strip(groups[3])
                           ELSE strip(groups[2]))
    IN  transaction_of_groups(_is_amount(groups[2]))

\* a key that takes the whole description
transaction_key_whole_description(trans) ==
    [date |-> trans.date, amount |-> trans.amount, description |-> trans.description]

\* the key of PDFParser._deduplicate_transactions, lines 335-339
transaction_key(trans) ==
    [date |-> trans.date, amount |-> trans.amount,
     description |-> prefix(trans.description, 50)]

\* key == other for two key tuples whose amounts are distinct float objects, as
\* the amounts of two extracted transactions are
same_key(key, other) ==
    /\ key.date = other.date
    /\ float_eq(key.amount, other.amount)
    /\ key.description = other.description

\* the loop of _deduplicate_transactions, lines 333-343, from the set `seen`
RECURSIVE deduplicate_from(_, _)
deduplicate_from(transactions, seen) ==
    IF transactions = <<>> THEN <<>>
    ELSE LET key == transaction_key(Head(transactions))
         IN  IF \E other \in seen : same_key(key, other)
             THEN deduplicate_from(Tail(transactions), seen)
             ELSE <<Head(transactions)>>
                  \o deduplicate_from(Tail(transactions), seen \cup {key})

\* PDFParser._deduplicate_transactions
_deduplicate_transactions(transactions) == deduplicate_from(transactions, {})

\* the transactions of the matches of one pattern, lines 104-111
RECURSIVE transactions_of(_)
transactions_of(matches) ==
    LET \* lines 107-108: a transaction is appended unless it is None
        appended(transaction) ==
            IF transaction = NoTransaction THEN <<>> ELSE <<transaction>>
    IN  IF matches = <<>> THEN <<>>
        ELSE appended(_parse_transaction_match(Head(matches)))
             \o transactions_of(Tail(matches))

\* the transactions of all patterns from pattern k on, lines 101-111
RECURSIVE candidates_from(_, _)
candidates_from(text, k) ==
    IF k > Len(TRANSACTION_PATTERNS) THEN <<>>
    ELSE transactions_of(finditer(TRANSACTION_PATTERNS[k], text, 1))
         \o candidates_from(text, k + 1)

\* an extractor that gives up, with nothing, when a match does not parse
_extract_transactions_unless_failure(text) ==
    IF \E k \in 1..Len(TRANSACTION_PATTERNS) :
          \E groups \in Range(finditer(TRANSACTION_PATTERNS[k], text, 1)) :
              _parse_transaction_match(groups) = NoTransaction
    THEN <<>>
    ELSE _deduplicate_transactions(candidates_from(text, 1))

\* PDFParser._extract_transactions_from_text
_extract_transactions_from_text(text) ==
    _deduplicate_transactions(candidates_from(text, 1))

\* the outcome of a call: the exception it raised ("" for none) and its value
Returned(value) == [raised |-> "", value |-> value]
Raised(exception) == [raised |-> exception, value |-> <<>>]

\* A document is what the two libraries make of the file: for each, the
\* texts page.extract_text() gives for its pages (<<>> for None or ''), or
\* the exception that opening or reading the file raises.
Document(pdfplumber, PyPDF2) == [pdfplumber |-> pdfplumber, PyPDF2 |-> PyPDF2]

\* the loops of _parse_with_pdfplumber and _parse_with_pypdf2, lines 65-69
\* and 80-84: each page's transactions are appended to the list
RECURSIVE extend_with_pages(_)
extend_with_pages(pages) ==
    IF pages = <<>> THEN <<>>
    ELSE (IF Head(pages) # <<>> THEN _extract_transactions_from_text(Head(pages))
          ELSE <<>>)
         \o extend_with_pages(Tail(pages))

\* PDFParser.parse_pdf(file_path)
pdf_parse_pdf(document) ==
    LET _parse_with(library) ==
            IF library.raised # "" THEN library
            ELSE Returned(extend_with_pages(library.value))
        \* lines 45-50
        with_pdfplumber == _parse_with(document.pdfplumber)
        \* lines 53-56: transactions is [] here, after an exception as after
        \* an empty result
        with_pypdf2 == _parse_with(document.PyPDF2)
    IN  IF with_pdfplumber.raised = "" /\ with_pdfplumber.value # <<>>
        THEN with_pdfplumber.value
        ELSE IF with_pypdf2.raised = "" THEN with_pypdf2.value ELSE <<>>

----------------------------------------------------------------------------
(* parsers/gemini_pdf_parser.py: GeminiPDFParser.  A value of the JSON the  *)
(* collaborator answers with is a record: json is its type ("missing" for a *)
(* key the object does not have, "null", "string" or "number"), text the    *)
(* str of a string and number the float of a number.                        *)

JsonValue(json, text, number) == [json |-> json, text |-> text, number |-> number]

\* a transaction object of the response
JsonTransaction(date, amount, description, type, category, account) ==
    [date |-> date, amount |-> amount, description |-> description, type |-> type,
     category |-> category, account |-> account]

\* float(trans['amount']), lines 233-238; None for ValueError and TypeError
amount_of(value) ==
    LET none_if_error(amount) == IF amount = ValueError THEN None ELSE amount
    IN  CASE value.json = "number" -> value.number
          [] value.json = "string" -> none_if_error(float(value.text))
          [] OTHER -> None

\* whether an entry of the transactions list is a JSON object; an entry that
\* is not one is a JsonValue
is_object(trans) == "json" \notin DOMAIN trans

\* `field not in trans`, line 228, raises TypeError for an entry that is
\* null or a number; for a string or a list it is a membership test
raises_type_error(trans) == ~is_object(trans) /\ trans.json \in {"null", "number"}

\* GeminiPDFParser._validate_transaction: its return value; an entry that is
\* a string never passes (float(trans['amount']) raises TypeError at the
\* latest)
_validate_transaction(trans) ==
    /\ is_object(trans)
    /\ \A field \in {"date", "amount", "description", "type"} :
            trans[field].json # "missing"
    /\ amount_of(trans.amount) # None
    /\ trans.type \in { JsonValue("string", <<"i","n","c","o","m","e">>, None),
                        JsonValue("string", <<"e","x","p","e","n","s","e">>, None),
                        JsonValue("string", <<"t","r","a","n","s","f","e","r">>, None) }
    /\ trans.date.json = "string" /\ Len(trans.date.text) >= 8

\* the dict _validate_transaction leaves, line 236, with the account of
\* lines 148-149
validated(trans, account_name) ==
    [trans EXCEPT !.amount = JsonValue("number", <<>>, abs(amount_of(trans.amount))),
                  !.account = IF account_name.json = "string" /\ account_name.text # <<>>
                              THEN account_name ELSE @]

\* the loop of _parse_with_gemini, lines 144-150
RECURSIVE validated_transactions(_, _)
validated_transactions(transactions, account_name) ==
    IF transactions = <<>> THEN <<>>
    ELSE (IF _validate_transaction(Head(transactions))
          THEN <<validated(Head(transactions), account_name)>> ELSE <<>>)
         \o validated_transactions(Tail(transactions), account_name)

\* what the call of the collaborator gives: generate_content raises
\* ("raises"), or the text of the response is not JSON ("malformed"), or it
\* is a JSON object ("object") with its account and its transactions
Response(kind, account, transactions) ==
    [kind |-> kind, account |-> account, transactions |-> transactions]

\* GeminiPDFParser._parse_with_gemini
\* the TypeError of an entry leaves the loop for `except Exception`, line
\* 157, which returns []
_parse_with_gemini(text, response) ==
    IF /\ response.kind = "object"
       /\ \A i \in 1..Len(response.transactions) :
             ~raises_type_error(response.transactions[i])
    THEN validated_transactions(response.transactions, response.account)
    ELSE <<>>

\* GeminiPDFParser.parse_pdf for the text _extract_text_from_pdf gives
gemini_parse_pdf(text, response) ==
    IF text = <<>> \/ Len(strip(text)) < 50
    THEN Raised("ValueError")
    ELSE Returned(_parse_with_gemini(text, response))

\* GeminiPDFParser._extract_text_from_pdf: the texts of the pages that have
\* one, read with pdfplumber or else with PyPDF2, joined with '\n\n'
_extract_text_from_pdf(document) ==
    LET text_parts_of(library) ==
            IF library.raised # "" THEN <<>>
            ELSE SelectSeq(library.value, LAMBDA page_text : page_text # <<>>)
        text_parts ==
            IF text_parts_of(document.pdfplumber) # <<>>
            THEN text_parts_of(document.pdfplumber)
            ELSE text_parts_of(document.PyPDF2)
        RECURSIVE joined(_)
        joined(parts) ==
            IF parts = <<>> THEN <<>>
            ELSE IF Len(parts) = 1 THEN parts[1]
            ELSE parts[1] \o <<"\n", "\n">> \o joined(Tail(parts))
    IN  joined(text_parts)

\* create_pdf_parser(use_gemini): the class of the parser it returns, for
\* the GEMINI_API_KEY of the environment ("" when unset) and for whether
\* GeminiPDFParser(api_key) raises
create_pdf_parser(use_gemini, api_key, init_raises) ==
    IF use_gemini /\ api_key # "" /\ ~init_raises
    THEN "GeminiPDFParser"
    ELSE "PDFParser"

----------------------------------------------------------------------------
(* routers/pdf_parser.py and schemas.py: the PDF endpoint *)

\* TransactionData(date=trans['date'], amount=trans['amount'],
\* description=trans['description'], type=trans['type'],
\* category=trans.get('category'), account=trans.get('account')) for a dict
\* of the parser: the record, or the KeyError of a missing key, or the
\* ValidationError of a value that is not of the field's type or not gt=0
TransactionData(trans) ==
    LET required == {"date", "amount", "description", "type"}
        optional_str(value) == value.json \in {"string", "null", "missing"}
        text_or_none(value) == IF value.json = "string" THEN value.text ELSE <<"None">>
    IN  IF \E field \in required : trans[field].json = "missing"
        THEN Raised("KeyError")
        ELSE IF /\ trans.date.json = "string"
                /\ trans.amount.json = "number"
                /\ at_least_zero(trans.amount.number)
                /\ ~is_zero(trans.amount.number)
                /\ trans.description.json = "string"
                /\ trans.type.json = "string"
                /\ optional_str(trans.category)
                /\ optional_str(trans.account)
        THEN Returned([date |-> trans.date.text,
                       amount |-> trans.amount.number,
                       description |-> trans.description.text,
                       type |-> trans.type.text,
                       category |-> text_or_none(trans.category),
                       account |-> text_or_none(trans.account)])
        ELSE Raised("ValidationError")

\* a conversion that a record failing validation aborts
convert_transactions_or_abort(transactions_data) ==
    IF \E i \in 1..Len(transactions_data) :
          TransactionData(transactions_data[i]).raised # ""
    THEN Raised("ValidationError")
    ELSE Returned([i \in 1..Len(transactions_data) |->
                      TransactionData(transactions_data[i]).value])

\* the loop of lines 81-96: the records of the transactions that validate
convert_transactions(transactions_data) ==
    LET valid == SelectSeq(transactions_data,
                           LAMBDA trans : TransactionData(trans).raised = "")
    IN  Returned([i \in 1..Len(valid) |-> TransactionData(valid[i]).value])

\* the handler parse_pdf(file, categories, accounts): the transactions of
\* the ParsePDFResponse with success=True, or the HTTPException raised
router_parse_pdf(filename, pdf_parser, document, response) ==
    LET \* lines 65-71: pdf_parser.parse_pdf(tmp_file_path, category_list,
        \* account_list); PDFParser.parse_pdf takes file_path only, so the
        \* call raises TypeError on a PDFParser
        transactions_data ==
            IF pdf_parser = "GeminiPDFParser"
            THEN gemini_parse_pdf(_extract_text_from_pdf(document), response)
            ELSE Raised("TypeError")
        transactions == convert_transactions(transactions_data.value)
    IN  IF \/ Len(filename) < 4
           \/ suffix(lower(filename), Len(filename) - 4) # <<".", "p", "d", "f">>
        THEN Raised("HTTPException 400")
        ELSE IF transactions_data.raised # "" \/ transactions.raised # ""
        THEN Raised("HTTPException 500")
        ELSE transactions

----------------------------------------------------------------------------
(* parsers/receipt_parser.py: ReceiptParser, on the text that               *)
(* pytesseract.image_to_string gives for the image                          *)

\* the regular expressions of ReceiptParser as sequences of atoms; those of
\* _extract_total are matched under re.IGNORECASE
receipt_patterns ==
    LET Atom(type, chars, min, max, greedy, group, alternatives) ==
            [type |-> type, chars |-> chars, complement |-> FALSE,
             min |-> min, max |-> max, greedy |-> greedy, group |-> group,
             alternatives |-> alternatives]
        Rep(chars, min, max) == Atom("rep", chars, min, max, TRUE, 0, <<>>)
        One(chars) == Rep(chars, 1, 1)
        Optional(chars) == Rep(chars, 0, 1)
        Plus(chars) == Rep(chars, 1, -1)
        Star(chars) == Rep(chars, 0, -1)
        Open(k) == Atom("open", {}, 0, 0, TRUE, k, <<>>)
        Close(k) == Atom("close", {}, 0, 0, TRUE, k, <<>>)
        Alternation(alternatives) == Atom("alt", {}, 0, 0, TRUE, 0, alternatives)
        \* $ without re.MULTILINE
        EndOfString == Atom("eos", {}, 0, 0, TRUE, 0, <<>>)
        \* a lowercase literal under re.IGNORECASE
        AnyCase(s) ==
            [i \in 1..Len(s) |->
                One({s[i], UpperCase[CHOOSE k \in 1..26 : LowerCase[k] = s[i]]})]
        Whitespace == {" ", "\t", "\n"}
        total == AnyCase(<<"t","o","t","a","l">>)
        \* \s*:?\s*\$?\s*([\d,]+\.?\d{0,2})
        labelled_amount ==
            << Star(Whitespace), Optional({":"}), Star(Whitespace), Optional({"$"}),
               Star(Whitespace), Open(1), Plus(DigitChars \cup {","}), Optional({"."}),
               Rep(DigitChars, 0, 2), Close(1) >>
        \* ([\d,]+\.\d{2})
        decimal_amount(k) ==
            << Open(k), Plus(DigitChars \cup {","}), One({"."}), Rep(DigitChars, 2, 2),
               Close(k) >>
    IN  [ total_patterns |->
            << \* (?:total|amount|sum|balance)\s*:?\s*\$?\s*([\d,]+\.?\d{0,2})
               << Alternation(<< total,
                                 AnyCase(<<"a","m","o","u","n","t">>),
                                 AnyCase(<<"s","u","m">>),
                                 AnyCase(<<"b","a","l","a","n","c","e">>) >>) >>
               \o labelled_amount,
               \* (?:grand\s+total|final\s+total)\s*:?\s*\$?\s*([\d,]+\.?\d{0,2})
               << Alternation(<< AnyCase(<<"g","r","a","n","d">>) \o <<Plus(Whitespace)>>
                                    \o total,
                                 AnyCase(<<"f","i","n","a","l">>) \o <<Plus(Whitespace)>>
                                    \o total >>) >>
               \o labelled_amount,
               \* \$\s*([\d,]+\.\d{2})\s*(?:total|$)
               << One({"$"}), Star(Whitespace) >> \o decimal_amount(1)
               \o << Star(Whitespace), Alternation(<< total, <<EndOfString>> >>) >> >>,
          \* \$?\s*([\d,]+\.\d{2})
          all_amounts |-> << Optional({"$"}), Star(Whitespace) >> \o decimal_amount(1),
          date_patterns |->
            << \* (\d{1,2}\.\d{1,2}\.\d{2,4})
               << Open(1), Rep(DigitChars, 1, 2), One({"."}), Rep(DigitChars, 1, 2),
                  One({"."}), Rep(DigitChars, 2, 4), Close(1) >>,
               \* (\d{1,2}[/-]\d{1,2}[/-]\d{2,4})
               << Open(1), Rep(DigitChars, 1, 2), One({"/", "-"}), Rep(DigitChars, 1, 2),
                  One({"/", "-"}), Rep(DigitChars, 2, 4), Close(1) >>,
               \* (\d{4}[/-]\d{2}[/-]\d{2})
               << Open(1), Rep(DigitChars, 4, 4), One({"/", "-"}), Rep(DigitChars, 2, 2),
                  One({"/", "-"}), Rep(DigitChars, 2, 2), Close(1) >>,
               \* (\d{2}[/-]\d{2}[/-]\d{2})
               << Open(1), Rep(DigitChars, 2, 2), One({"/", "-"}), Rep(DigitChars, 2, 2),
                  One({"/", "-"}), Rep(DigitChars, 2, 2), Close(1) >> >>,
          \* ([A-Za-z][A-Za-z0-9\s\-/]+?)\s+\$?\s*([\d,]+\.\d{2})
          item_pattern |->
            << Open(1), One(UpperCaseLetters \cup LowerCaseLetters),
               Atom("rep", UpperCaseLetters \cup LowerCaseLetters \cup DigitChars
                           \cup Whitespace \cup {"-", "/"}, 1, -1, FALSE, 0, <<>>),
               Close(1), Plus(Whitespace), Optional({"$"}), Star(Whitespace) >>
            \o decimal_amount(2) ]

\* x < y for two floats that are finite and not negative
float_less(x, y) ==
    LET n == IF Len(x.fraction) < Len(y.fraction) THEN Len(y.fraction)
             ELSE Len(x.fraction)
        digits(z) == z.whole \o z.fraction \o zeros(n - Len(z.fraction))
    IN  IF Len(x.whole) # Len(y.whole) THEN Len(x.whole) < Len(y.whole)
        ELSE \E i \in 1..(Len(x.whole) + n) :
                /\ int_of(<<digits(x)[i]>>) < int_of(<<digits(y)[i]>>)
                /\ \A j \in 1..(i - 1) : digits(x)[j] = digits(y)[j]

\* ReceiptParser._extract_total(text)
_extract_total(text) ==
    LET \* float(match.group(1).replace(',', '')) for each match
        floats(matches) ==
            [k \in 1..Len(matches) |-> float(replace(matches[k][1], <<",">>, <<>>))]
        \* lines 165-173: the amounts of the matches of all patterns; the
        \* ValueError of a match is skipped
        amounts ==
            SelectSeq(floats(finditer(receipt_patterns.total_patterns[1], text, 1))
                      \o floats(finditer(receipt_patterns.total_patterns[2], text, 1))
                      \o floats(finditer(receipt_patterns.total_patterns[3], text, 1)),
                      LAMBDA amount : amount # ValueError)
        \* line 180
        all_amounts == floats(finditer(receipt_patterns.all_amounts, text, 1))
        \* max(amounts)
        max(list) ==
            list[CHOOSE i \in 1..Len(list) :
                    /\ \A j \in 1..Len(list) : ~float_less(list[i], list[j])
                    /\ \A j \in 1..(i - 1) : float_less(list[j], list[i])]
    IN  IF amounts # <<>> THEN max(amounts)
        ELSE IF all_amounts # <<>>
                /\ \A k \in 1..Len(all_amounts) : all_amounts[k] # ValueError
        THEN max(all_amounts)
        ELSE None

\* ReceiptParser._extract_date(text): the first of the date patterns whose
\* first match _parse_date parses; ReceiptParser._parse_date is
\* PDFParser._parse_date with the same formats
_extract_date(text) ==
    LET found(k) == finditer(receipt_patterns.date_patterns[k], text, 1)
        parsed_date(k) == IF found(k) = <<>> THEN NoDate
                          ELSE _parse_date(found(k)[1][1])
        parsing == {k \in 1..4 : parsed_date(k) # NoDate}
    IN  IF parsing = {} THEN NoDate ELSE parsed_date(MinOf(parsing))

\* ReceiptParser._is_likely_item(description, amount)
_is_likely_item(description, amount) ==
    LET exclude_keywords ==
            { <<"t","o","t","a","l">>, <<"s","u","b","t","o","t","a","l">>,
              <<"t","a","x">>, <<"a","m","o","u","n","t">>,
              <<"b","a","l","a","n","c","e">>, <<"c","h","a","n","g","e">>,
              <<"c","a","s","h">>, <<"c","r","e","d","i","t">>, <<"d","e","b","i","t">>,
              <<"p","a","y","m","e","n","t">>, <<"t","e","n","d","e","r">>,
              <<"d","u","e">> }
    IN  /\ \A keyword \in exclude_keywords : ~contains(lower(description), keyword)
        /\ Len(description) >= 3
        /\ ~float_less(float(<<"1","0","0","0">>), amount)

\* ReceiptParser._extract_items(text)
_extract_items(text) ==
    LET matches == finditer(receipt_patterns.item_pattern, text, 1)
        items == [k \in 1..Len(matches) |->
                     [description |-> strip(matches[k][1]),
                      amount |-> float(replace(matches[k][2], <<",">>, <<>>))]]
    IN  SelectSeq(items, LAMBDA item : /\ item.amount # ValueError
                                       /\ _is_likely_item(item.description, item.amount))

\* the None that _extract_merchant returns; no line is the empty str
NoMerchant == <<>>

\* ReceiptParser._extract_merchant(text)
_extract_merchant(text) ==
    LET all_lines == split_on(text, "\n")
        lines == SubSeq(all_lines, 1, IF Len(all_lines) < 5 THEN Len(all_lines) ELSE 5)
        letter_count(line) ==
            Cardinality({i \in 1..Len(line) :
                            line[i] \in UpperCaseLetters \cup LowerCaseLetters})
        named == {k \in 1..Len(lines) :
                    /\ Len(strip(lines[k])) \in 3..50
                    /\ 2 * letter_count(strip(lines[k])) > Len(strip(lines[k]))}
    IN  IF named = {} THEN NoMerchant ELSE strip(lines[MinOf(named)])

\* datetime.now().strftime('%Y-%m-%d') on the day of the request
Today == <<"2","0","2","4","-","0","3","-","0","9">>

\* ReceiptParser.parse_receipt(image_path), for the text of the image; date,
\* total_amount and merchant are the locals of lines 39-42
parse_receipt(text) ==
    CHOOSE result \in
        { [ transaction |->
              Transaction(IF date = NoDate THEN Today ELSE date,
                          \* total_amount or 0.0
                          IF total_amount = None \/ is_zero(total_amount)
                          THEN float(<<"0", ".", "0">>) ELSE total_amount,
                          IF merchant = NoMerchant
                          THEN <<"R","e","c","e","i","p","t"," ",
                                 "P","u","r","c","h","a","s","e">>
                          ELSE merchant,
                          <<"e","x","p","e","n","s","e">>),
            items |-> _extract_items(text) ] :
          date \in {_extract_date(text)},
          total_amount \in {_extract_total(text)},
          merchant \in {_extract_merchant(text)} } : TRUE

\* os.path.splitext(filename)[1]
splitext_ext(filename) ==
    LET slashes == {i \in 1..Len(filename) : filename[i] = "/"}
        base == IF slashes = {} THEN 1 ELSE MaxOf(slashes) + 1
        \* the dots after the leading dots of the last component
        dots == {i \in base..Len(filename) :
                    /\ filename[i] = "."
                    /\ \E j \in base..(i - 1) : filename[j] # "."}
    IN  IF dots = {} THEN <<>> ELSE suffix(filename, MaxOf(dots) - 1)

\* the handler parse_receipt(file) of POST /receipt: the transaction and the
\* items of the ParseReceiptResponse with success=True, or the HTTPException
\* raised
router_parse_receipt(filename, text) ==
    LET \* lines 50-55, for the result of line 45
        transaction_of(result) ==
            TransactionData(
                [date |-> JsonValue("string", result.transaction.date, None),
                 amount |-> JsonValue("number", <<>>, result.transaction.amount),
                 description |-> JsonValue("string", result.transaction.description, None),
                 type |-> JsonValue("string", result.transaction.type, None),
                 category |-> JsonValue("missing", <<>>, None),
                 account |-> JsonValue("missing", <<>>, None)])
        \* lines 45-72: the response, or the HTTPException of except Exception
        response_of(result, transaction) ==
            IF transaction.raised # "" THEN Raised("HTTPException 500")
            ELSE Returned([transaction |-> transaction.value, items |-> result.items])
    IN  IF lower(splitext_ext(filename))
               \notin { <<".","j","p","g">>, <<".","j","p","e","g">>, <<".","p","n","g">> }
        THEN Raised("HTTPException 400")
        ELSE CHOOSE response \in
                { response_of(result, transaction_of(result)) :
                    result \in {parse_receipt(text)} } : TRUE

----------------------------------------------------------------------------
(* The inputs of the parsers *)

\* the texts pytesseract reads from receipt images; in comments each as
\* Python writes it
ReceiptTexts ==
    { \* the total among smaller line amounts: 'MILK $3.99\nBREAD $2.50\nTOTAL: $42.17'
      <<"M","I","L","K"," ","$","3",".","9","9","\n","B","R","E","A","D"," ",
            "$","2",".","5","0","\n","T","O","T","A","L",":"," ","$","4","2",".",
            "1","7">>,
      \* the cash tendered after the total: 'TOTAL: $42.17\nCASH $50.00\nCHANGE $7.83\nTHANK YOU'
      <<"T","O","T","A","L",":"," ","$","4","2",".","1","7","\n","C","A","S",
            "H"," ","$","5","0",".","0","0","\n","C","H","A","N","G","E"," ","$",
            "7",".","8","3","\n","T","H","A","N","K"," ","Y","O","U">>,
      \* the cash tendered before the total: 'CASH $50.00\nTOTAL: $42.17\nCHANGE $7.83'
      <<"C","A","S","H"," ","$","5","0",".","0","0","\n","T","O","T","A","L",
            ":"," ","$","4","2",".","1","7","\n","C","H","A","N","G","E"," ","$",
            "7",".","8","3">>,
      \* no text: ''
      <<>>,
      \* no amount: 'Shop\nTHANK YOU'
      <<"S","h","o","p","\n","T","H","A","N","K"," ","Y","O","U">>,
      \* amounts without a keyword or a currency sign: 'Store\n3.99\n12.50\n'
      <<"S","t","o","r","e","\n","3",".","9","9","\n","1","2",".","5","0",
            "\n">>,
      \* a total of zero: 'Balance: 0.00'
      <<"B","a","l","a","n","c","e",":"," ","0",".","0","0">>,
      \* a comma in the amount: 'SUM: 42,17'
      <<"S","U","M",":"," ","4","2",",","1","7">>,
      \* a date and items: 'Shop\n03/09/2024\nMILK 2 1GAL  $3.99\nTAX 0.52\nTOTAL: $4.51\n'
      <<"S","h","o","p","\n","0","3","/","0","9","/","2","0","2","4","\n","M",
            "I","L","K"," ","2"," ","1","G","A","L"," "," ","$","3",".","9","9",
            "\n","T","A","X"," ","0",".","5","2","\n","T","O","T","A","L",":"," ",
            "$","4",".","5","1","\n">> }

\* the texts extracted from documents, made of lines of statement text; in
\* comments each line as Python writes it
Texts ==
    LET \* '01/15/2024 - 5 nan'
        NanLine ==
            <<"0","1","/","1","5","/","2","0","2","4"," ","-"," ","5"," ","n",
              "a","n">>
        \* '15.01.2024 Zakupy -149,06 zl-stroke'
        ZakupyLine ==
            <<"1","5",".","0","1",".","2","0","2","4"," ","Z","a","k","u","p",
              "y"," ","-","1","4","9",",","0","6"," ","z","U+0142">>
        \* '16.01.2024 Wplata +2 000,00'
        WplataLine ==
            <<"1","6",".","0","1",".","2","0","2","4"," ","W","p","l","a","t",
              "a"," ","+","2"," ","0","0","0",",","0","0">>
        \* '17.01.2024 Czynsz -800,00 PLN'
        CzynszLine ==
            <<"1","7",".","0","1",".","2","0","2","4"," ","C","z","y","n","s",
              "z"," ","-","8","0","0",",","0","0"," ","P","L","N">>
        \* '01/15/2024 -5.00 Shop'
        ShopLine ==
            <<"0","1","/","1","5","/","2","0","2","4"," ","-","5",".","0","0",
              " ","S","h","o","p">>
        \* '01/16/2024 +12.50 Pay'
        PayLine ==
            <<"0","1","/","1","6","/","2","0","2","4"," ","+","1","2",".","5",
              "0"," ","P","a","y">>
        \* '13/13/2024 5.00 Bad date'
        BadDateLine ==
            <<"1","3","/","1","3","/","2","0","2","4"," ","5",".","0","0"," ",
              "B","a","d"," ","d","a","t","e">>
        \* '2024-01-15 Salary 1,234.56'
        SalaryLine ==
            <<"2","0","2","4","-","0","1","-","1","5"," ","S","a","l","a","r",
              "y"," ","1",",","2","3","4",".","5","6">>
        \* '01/15/2024 -0.00 X'
        ZeroLine ==
            <<"0","1","/","1","5","/","2","0","2","4"," ","-","0",".","0","0",
              " ","X">>
        \* '01/16/2024 (5.00) Refund'
        RefundLine ==
            <<"0","1","/","1","6","/","2","0","2","4"," ","(","5",".","0","0",
              ")"," ","R","e","f","u","n","d">>
        \* 'no transactions here'
        NoTransactionLine ==
            <<"n","o"," ","t","r","a","n","s","a","c","t","i","o","n","s"," ",
              "h","e","r","e">>
        NewLine == <<"\n">>
        Spaces == [i \in 1..30 |-> " "]
    IN  { <<>>,
          NoTransactionLine,
          NanLine,
          ZeroLine,
          ZakupyLine \o NewLine \o WplataLine \o NewLine \o CzynszLine \o NewLine,
          ShopLine \o NewLine \o ShopLine \o NewLine \o PayLine \o NewLine,
          BadDateLine \o NewLine \o SalaryLine \o NewLine,
          NanLine \o NewLine \o NanLine \o NewLine \o RefundLine \o NewLine,
          Spaces \o ShopLine \o Spaces }

\* the documents: of one page or two, each page one of the texts; read by
\* both libraries alike, or by PyPDF2 only, or by neither
Documents ==
    LET PageLists == UNION { [1..n -> Texts] : n \in 1..2 }
    IN  {Document(Returned(pages), Returned(pages)) : pages \in PageLists}
        \cup {Document(Raised("Exception"), Returned(pages)) :
                  pages \in [1..1 -> Texts]}
        \cup {Document(Raised("Exception"), Raised("Exception"))}

\* a date as _parse_date returns it, and an amount
IsoDate15 == <<"2","0","2","4","-","0","1","-","1","5">>
Amount5 == float(<<"5", ".", "0", "0">>)

\* the transactions the lists given to _deduplicate_transactions are made of
SomeTransactions ==
    LET Amount7 == float(<<"7", ".", "2", "5">>)
        IsoDate16 == <<"2","0","2","4","-","0","1","-","1","6">>
        \* two descriptions of 51 characters with the same first 50
        LongDescriptionA == [i \in 1..50 |-> "x"] \o <<"a">>
        LongDescriptionB == [i \in 1..50 |-> "x"] \o <<"b">>
    IN  { Transaction(IsoDate15, Amount5, LongDescriptionA, "expense"),
          Transaction(IsoDate15, Amount5, LongDescriptionB, "income"),
          Transaction(IsoDate16, Amount5, LongDescriptionA, "expense"),
          Transaction(IsoDate15, Amount7, LongDescriptionA, "expense"),
          Transaction(IsoDate15, NaN, LongDescriptionA, "income"),
          Transaction(IsoDate15, Amount5, <<"S","h","o","p">>, "expense") }

\* the longest list given to _deduplicate_transactions
MaxTransactions == 3

TransactionLists ==
    UNION { [1..n -> SomeTransactions] : n \in 0..MaxTransactions }

\* the answers of the collaborator
Responses ==
    LET JsonMissing == JsonValue("missing", <<>>, None)
        JsonNull == JsonValue("null", <<>>, None)
        JsonString(text) == JsonValue("string", text, None)
        JsonNumber(number) == JsonValue("number", <<>>, number)
        GoodTransaction ==
            JsonTransaction(JsonString(IsoDate15), JsonNumber(Amount5),
                            JsonString(<<"S","h","o","p">>),
                            JsonString(<<"e","x","p","e","n","s","e">>),
                            JsonNull, JsonMissing)
    IN  { Response("raises", JsonMissing, <<>>),
          Response("malformed", JsonMissing, <<>>),
          Response("object", JsonNull, <<GoodTransaction>>),
          Response("object", JsonString(<<"M","a","i","n">>),
              << GoodTransaction,
                 [GoodTransaction EXCEPT
                     !.amount = JsonNumber(negated(float(<<"7", ".", "2", "5">>)))],
                 [GoodTransaction EXCEPT !.amount = JsonString(<<"1","2",".","5">>)],
                 [GoodTransaction EXCEPT !.amount = JsonString(<<"a","b","c">>)],
                 [GoodTransaction EXCEPT !.amount = JsonNull],
                 [GoodTransaction EXCEPT !.type = JsonString(<<"d","e","b","i","t">>)],
                 [GoodTransaction EXCEPT !.date = JsonMissing],
                 [GoodTransaction EXCEPT !.date = JsonString(<<"1","/","1","5">>)] >>),
          \* an amount "nan", and the literal NaN that json.loads accepts
          Response("object", JsonNull,
              << [GoodTransaction EXCEPT !.amount = JsonString(<<"n","a","n">>)],
                 [GoodTransaction EXCEPT !.amount = JsonNumber(NaN)] >>),
          \* entries the parser accepts and TransactionData does not: an
          \* amount of 0, a description that is null
          Response("object", JsonNull,
              << [GoodTransaction EXCEPT !.amount = JsonNumber(float(<<"0">>))],
                 GoodTransaction,
                 [GoodTransaction EXCEPT !.description = JsonNull],
                 [GoodTransaction EXCEPT
                     !.type = JsonString(<<"i","n","c","o","m","e">>)] >>),
          \* entries that are not objects: a string, and null
          Response("object", JsonString(<<"M","a","i","n">>),
              << GoodTransaction, JsonString(<<"S","h","o","p">>) >>),
          Response("object", JsonString(<<"M","a","i","n">>),
              << GoodTransaction, JsonNull,
                 [GoodTransaction EXCEPT
                     !.type = JsonString(<<"i","n","c","o","m","e">>)] >>) }

\* the raw amount strings _parse_amount is called with; in comments each as
\* Python writes it and what PDFParser._parse_amount gives for it
AmountStrings ==
    { \* '(50.00)' gives -5000.0
      <<"(","5","0",".","0","0",")">>,
      \* '50.00' gives 50.0
      <<"5","0",".","0","0">>,
      \* '(50)' gives -50.0
      <<"(","5","0",")">>,
      \* '(5.5)' gives -5.5
      <<"(","5",".","5",")">>,
      \* '(1,234.56)' gives -1234.56
      <<"(","1",",","2","3","4",".","5","6",")">>,
      \* '(50,00)' gives -5000.0
      <<"(","5","0",",","0","0",")">>,
      \* '1.234,56' gives 1234.56
      <<"1",".","2","3","4",",","5","6">>,
      \* '1,234.56' gives 1234.56
      <<"1",",","2","3","4",".","5","6">>,
      \* '1.234,56 zl-stroke' gives 1234.56
      <<"1",".","2","3","4",",","5","6"," ","z","U+0142">>,
      \* '$1,234.56' gives 1234.56
      <<"$","1",",","2","3","4",".","5","6">>,
      \* '149,06 zl-stroke' gives 149.06
      <<"1","4","9",",","0","6"," ","z","U+0142">>,
      \* '1 234,56 zl-stroke' gives 1234.56
      <<"1"," ","2","3","4",",","5","6"," ","z","U+0142">>,
      \* '149,06 PLN' gives 149.06
      <<"1","4","9",",","0","6"," ","P","L","N">>,
      \* '-149,06 zl-stroke' gives -149.06
      <<"-","1","4","9",",","0","6"," ","z","U+0142">>,
      \* '10,00 zl-stroke' gives 10.0
      <<"1","0",",","0","0"," ","z","U+0142">>,
      \* '1 000,00 zl-stroke' gives 1000.0
      <<"1"," ","0","0","0",",","0","0"," ","z","U+0142">>,
      \* '1,234' gives 1234.0
      <<"1",",","2","3","4">>,
      \* '1,23' gives 1.23
      <<"1",",","2","3">>,
      \* '1,2' gives 1.2
      <<"1",",","2">>,
      \* '1,' gives 1.0
      <<"1",",">>,
      \* '1,2x' gives None
      <<"1",",","2","x">>,
      \* '12,3x' gives None
      <<"1","2",",","3","x">>,
      \* '1,234,567' gives 1234567.0
      <<"1",",","2","3","4",",","5","6","7">>,
      \* '1,234,56' gives None
      <<"1",",","2","3","4",",","5","6">>,
      \* '1,234.567' gives 1234.567
      <<"1",",","2","3","4",".","5","6","7">>,
      \* '1.234.567,89' gives 1234567.89
      <<"1",".","2","3","4",".","5","6","7",",","8","9">>,
      \* '1,234,567.89' gives 1234567.89
      <<"1",",","2","3","4",",","5","6","7",".","8","9">>,
      \* '1,2.3,4' gives None
      <<"1",",","2",".","3",",","4">>,
      \* 'abc' gives None
      <<"a","b","c">>,
      \* '' gives None
      <<>>,
      \* '1234.56' gives 1234.56
      <<"1","2","3","4",".","5","6">>,
      \* '1234.5' gives 1234.5
      <<"1","2","3","4",".","5">>,
      \* '+5.00' gives 5.0
      <<"+","5",".","0","0">>,
      \* '-0.00' gives -0.0
      <<"-","0",".","0","0">>,
      \* '-50.00' gives -50.0
      <<"-","5","0",".","0","0">>,
      \* '1e-3' gives 0.001
      <<"1","e","-","3">>,
      \* 'nan' gives nan
      <<"n","a","n">>,
      \* '1.5' gives 1.5
      <<"1",".","5">>,
      \* '0.001' gives 1.0
      <<"0",".","0","0","1">>,
      \* '-1,5' gives -1.5
      <<"-","1",",","5">>,
      \* '1.234' gives 1234.0
      <<"1",".","2","3","4">>,
      \* '7' gives 7.0
      <<"7">> }

\* the date strings _parse_date is called with; in comments each as Python
\* writes it and what PDFParser._parse_date gives for it
DateStrings ==
    { \* '15.01.2024' gives '2024-01-15'
      <<"1","5",".","0","1",".","2","0","2","4">>,
      \* '01/15/2024' gives '2024-01-15'
      <<"0","1","/","1","5","/","2","0","2","4">>,
      \* '15/01/2024' gives '2024-01-15'
      <<"1","5","/","0","1","/","2","0","2","4">>,
      \* '01-15-2024' gives '2024-01-15'
      <<"0","1","-","1","5","-","2","0","2","4">>,
      \* '15-01-2024' gives '2024-01-15'
      <<"1","5","-","0","1","-","2","0","2","4">>,
      \* '05/06/2024' gives '2024-05-06'
      <<"0","5","/","0","6","/","2","0","2","4">>,
      \* '05-06-2024' gives '2024-05-06'
      <<"0","5","-","0","6","-","2","0","2","4">>,
      \* '02/30/2024' gives None
      <<"0","2","/","3","0","/","2","0","2","4">>,
      \* '30/02/2024' gives None
      <<"3","0","/","0","2","/","2","0","2","4">>,
      \* '04/31/2024' gives None
      <<"0","4","/","3","1","/","2","0","2","4">>,
      \* '31/04/2024' gives None
      <<"3","1","/","0","4","/","2","0","2","4">>,
      \* '13/12/2024' gives '2024-12-13'
      <<"1","3","/","1","2","/","2","0","2","4">>,
      \* '12/13/2024' gives '2024-12-13'
      <<"1","2","/","1","3","/","2","0","2","4">>,
      \* '13/13/2024' gives None
      <<"1","3","/","1","3","/","2","0","2","4">>,
      \* '29/02/2024' gives '2024-02-29'
      <<"2","9","/","0","2","/","2","0","2","4">>,
      \* '02/29/2023' gives None
      <<"0","2","/","2","9","/","2","0","2","3">>,
      \* '29/02/2023' gives None
      <<"2","9","/","0","2","/","2","0","2","3">>,
      \* '15.01.24' gives '2024-01-15'
      <<"1","5",".","0","1",".","2","4">>,
      \* '01/15/24' gives '2024-01-15'
      <<"0","1","/","1","5","/","2","4">>,
      \* '15/01/24' gives '2024-01-15'
      <<"1","5","/","0","1","/","2","4">>,
      \* '2024-01-15' gives '2024-01-15'
      <<"2","0","2","4","-","0","1","-","1","5">>,
      \* '2024/01/15' gives '2024-01-15'
      <<"2","0","2","4","/","0","1","/","1","5">>,
      \* 'invalid-date' gives None
      <<"i","n","v","a","l","i","d","-","d","a","t","e">>,
      \* '' gives None
      <<>>,
      \* '1.2.2024' gives '2024-02-01'
      <<"1",".","2",".","2","0","2","4">>,
      \* '5/6/2024' gives '2024-05-06'
      <<"5","/","6","/","2","0","2","4">>,
      \* '01/02/0099' gives '99-01-02'
      <<"0","1","/","0","2","/","0","0","9","9">>,
      \* '15.01.0999' gives '999-01-15'
      <<"1","5",".","0","1",".","0","9","9","9">>,
      \* '01/ 5/2024' gives '2024-01-05'
      <<"0","1","/"," ","5","/","2","0","2","4">>,
      \* '15.13.2024' gives None
      <<"1","5",".","1","3",".","2","0","2","4">>,
      \* '32.01.2024' gives None
      <<"3","2",".","0","1",".","2","0","2","4">>,
      \* '01.15.2024' gives None
      <<"0","1",".","1","5",".","2","0","2","4">>,
      \* '01/15/68' gives '2068-01-15'
      <<"0","1","/","1","5","/","6","8">>,
      \* '01/15/69' gives '1969-01-15'
      <<"0","1","/","1","5","/","6","9">>,
      \* '24-01-15' gives '2015-01-24'
      <<"2","4","-","0","1","-","1","5">>,
      \* '00/15/2024' gives None
      <<"0","0","/","1","5","/","2","0","2","4">>,
      \* '01/15/0000' gives None
      <<"0","1","/","1","5","/","0","0","0","0">>,
      \* '15.01/2024' gives None
      <<"1","5",".","0","1","/","2","0","2","4">>,
      \* '01/15-2024' gives None
      <<"0","1","/","1","5","-","2","0","2","4">>,
      \* '15.01.2024x' gives None
      <<"1","5",".","0","1",".","2","0","2","4","x">>,
      \* ' 15.01.2024 ' gives '2024-01-15'
      <<" ","1","5",".","0","1",".","2","0","2","4"," ">>,
      \* '1/1/1' gives None
      <<"1","/","1","/","1">> }

\* the descriptions _extract_pattern is called with, lowercased; in comments
\* each as Python writes it and what _extract_pattern gives for it
PatternDescriptions ==
    { \* 'Shop the Gym' gives 'shop gym'
      <<"S","h","o","p"," ","t","h","e"," ","G","y","m">>,
      \* 'Purchase at the Unique Store' gives 'unique store'
      <<"P","u","r","c","h","a","s","e"," ","a","t"," ","t","h","e"," ","U","n","i","q","u","e"," ","S","t","o","r","e">>,
      \* 'ABC Gym' gives 'abc gym'
      <<"A","B","C"," ","G","y","m">>,
      \* 'Gym' gives 'gym'
      <<"G","y","m">>,
      \* '' gives ''
      <<>>,
      \* 'at to' gives 'at to'
      <<"a","t"," ","t","o">>,
      \* 'AB CD' gives 'ab cd'
      <<"A","B"," ","C","D">>,
      \* "Payment to John's Cafe" gives 'cafe'
      <<"P","a","y","m","e","n","t"," ","t","o"," ","J","o","h","n","'","s"," ","C","a","f","e">>,
      \* 'Cafe-Bar 24 Warsaw' gives 'warsaw'
      <<"C","a","f","e","-","B","a","r"," ","2","4"," ","W","a","r","s","a","w">>,
      \* 'to at 12 ab cd ef gh ij kl mn op qr st uv' gives 'to at 12 ab cd ef gh ij kl mn'
      <<"t","o"," ","a","t"," ","1","2"," ","a","b"," ","c","d"," ","e","f"," ","g","h"," ","i","j"," ","k","l"," ","m","n"," ","o","p"," ","q","r"," ","s","t"," ","u","v">>,
      \* '  Uber  Trip 123 ' gives 'uber trip'
      <<" "," ","U","b","e","r"," "," ","T","r","i","p"," ","1","2","3"," ">>,
      \* 'The Theatre' gives 'theatre'
      <<"T","h","e"," ","T","h","e","a","t","r","e">>,
      \* 'AT&T Bill' gives 'bill'
      <<"A","T","&","T"," ","B","i","l","l">>,
      \* 'A an the' gives 'a an the'
      <<"A"," ","a","n"," ","t","h","e">>,
      \* 'Netflix' gives 'netflix'
      <<"N","e","t","f","l","i","x">>,
      \* 'pay_ment from Bob' gives 'bob'
      <<"p","a","y","_","m","e","n","t"," ","f","r","o","m"," ","B","o","b">>,
      \* 'Cafe  Nero' gives 'cafe nero'
      <<"C","a","f","e"," "," ","N","e","r","o">> }

----------------------------------------------------------------------------
(* The parsers as a state machine: a call is drawn with its arguments and   *)
(* then runs.  The parsers keep no state between calls.                     *)

ParserCall(op, text, response, transactions) ==
    [op |-> op, text |-> text, response |-> response, transactions |-> transactions,
     amount |-> None, document |-> <<>>, filename |-> <<>>, pdf_parser |-> "",
     done |-> FALSE, outcome |-> Returned(<<>>)]

ParserCalls ==
    {ParserCall("_extract_transactions_from_text", text, <<>>, <<>>) :
        text \in Texts}
    \cup {ParserCall("_deduplicate_transactions", <<>>, <<>>, transactions) :
        transactions \in TransactionLists}
    \cup {ParserCall("GeminiPDFParser.parse_pdf", text, response, <<>>) :
        text \in Texts, response \in Responses}
    \cup {[ParserCall("PDFParser.parse_pdf", <<>>, <<>>, <<>>)
               EXCEPT !.document = document] : document \in Documents}
    \cup {[ParserCall("POST /pdf", <<>>, response, <<>>)
               EXCEPT !.document = document,
                      !.filename = filename,
                      \* line 16, run when the module is imported
                      !.pdf_parser = create_pdf_parser(TRUE, environment[1],
                                                       environment[2])] :
              document \in Documents, response \in Responses,
              filename \in { <<"s",".","P","D","F">>, <<"s",".","t","x","t">> },
              environment \in { <<"", FALSE>>, <<"key", TRUE>>, <<"key", FALSE>> }}
    \cup {ParserCall("_parse_amount", text, <<>>, <<>>) : text \in AmountStrings}
    \cup {ParserCall("_parse_date", text, <<>>, <<>>) : text \in DateStrings}
    \cup {[ParserCall("categorize", text, <<>>, <<>>) EXCEPT !.amount = amount] :
        text \in CategorizeDescriptions,
        amount \in {None, Amount5, negated(float(<<"7", ".", "2", "5">>)), NaN}}
    \cup {ParserCall("_extract_pattern", text, <<>>, <<>>) : text \in PatternDescriptions}
    \cup {ParserCall("ReceiptParser.parse_receipt", text, <<>>, <<>>) :
        text \in ReceiptTexts}
    \cup {[ParserCall("POST /receipt", text, <<>>, <<>>) EXCEPT !.filename = filename] :
        text \in ReceiptTexts,
        filename \in { <<"r",".","j","p","g">>, <<"r",".","P","N","G">>,
                       <<"r",".","p","d","f">> }}

\* categorize is called on an engine that holds one of the stores, among
\* them stores with the rule learn("", "Shopping") appends
PdfInit ==
    /\ parser_call \in ParserCalls
    /\ learned_rules \in
          IF parser_call.op = "categorize"
          THEN LET EmptyPatternRule ==
                       [pattern |-> <<>>, category |-> "Shopping", learned_from |-> 1]
               IN  StartStores
                   \cup { <<EmptyPatternRule>>,
                          <<EmptyPatternRule,
                            [pattern |-> <<"g","y","m">>, category |-> "Entertainment",
                             learned_from |-> 2]>> }
          ELSE {<<>>}
    /\ rules_file = IF learned_rules = <<>> THEN AbsentFile ELSE JsonFile(learned_rules)
    /\ call = Call("init", <<>>, "", NoMatch)
    /\ before = <<>>
    /\ threads = <<>>
    /\ start_rules = <<>>
    /\ NoRequests

Pending(op) == parser_call # <<>> /\ parser_call.op = op /\ ~parser_call.done
Finish(outcome) == parser_call' = [parser_call EXCEPT !.done = TRUE, !.outcome = outcome]

\* PDFParser._extract_transactions_from_text(text)
ExtractTransactionsFromText ==
    /\ Pending("_extract_transactions_from_text")
    /\ Finish(Returned(_extract_transactions_from_text(parser_call.text)))
    /\ UNCHANGED <<catVars, concVars, serverVars>>

\* PDFParser._deduplicate_transactions(transactions)
DeduplicateTransactions ==
    /\ Pending("_deduplicate_transactions")
    /\ Finish(Returned(_deduplicate_transactions(parser_call.transactions)))
    /\ UNCHANGED <<catVars, concVars, serverVars>>

\* GeminiPDFParser.parse_pdf(file_path, ...) on a document with this text
GeminiParsePdf ==
    /\ Pending("GeminiPDFParser.parse_pdf")
    /\ Finish(gemini_parse_pdf(parser_call.text, parser_call.response))
    /\ UNCHANGED <<catVars, concVars, serverVars>>

\* PDFParser.parse_pdf(file_path) on a document
PdfParsePdf ==
    /\ Pending("PDFParser.parse_pdf")
    /\ Finish(Returned(pdf_parse_pdf(parser_call.document)))
    /\ UNCHANGED <<catVars, concVars, serverVars>>

\* a request POST /pdf with a file of this name and content
ParsePdfEndpoint ==
    /\ Pending("POST /pdf")
    /\ Finish(router_parse_pdf(parser_call.filename, parser_call.pdf_parser,
                               parser_call.document, parser_call.response))
    /\ UNCHANGED <<catVars, concVars, serverVars>>

\* ReceiptParser.parse_receipt(image_path) on an image with this text
ParseReceipt ==
    /\ Pending("ReceiptParser.parse_receipt")
    /\ Finish(Returned(parse_receipt(parser_call.text)))
    /\ UNCHANGED <<catVars, concVars, serverVars>>

\* a request POST /receipt with a file of this name, an image with this text
ParseReceiptEndpoint ==
    /\ Pending("POST /receipt")
    /\ Finish(router_parse_receipt(parser_call.filename, parser_call.text))
    /\ UNCHANGED <<catVars, concVars, serverVars>>

\* PDFParser._parse_amount(amount_str)
ParseAmount ==
    /\ Pending("_parse_amount")
    /\ Finish(Returned(_parse_amount(parser_call.text)))
    /\ UNCHANGED <<catVars, concVars, serverVars>>

\* PDFParser._parse_date(date_str)
ParseDate ==
    /\ Pending("_parse_date")
    /\ Finish(Returned(_parse_date(parser_call.text)))
    /\ UNCHANGED <<catVars, concVars, serverVars>>

\* TransactionCategorizer.categorize(description, amount), called once
CategorizeOnce ==
    /\ Pending("categorize")
    /\ Finish(Returned(categorize_amount(learned_rules, parser_call.text,
                                         parser_call.amount)))
    /\ UNCHANGED <<catVars, concVars, serverVars>>

\* learn, lines 195-199: pattern = self._extract_pattern(description.lower())
ExtractPattern ==
    /\ Pending("_extract_pattern")
    /\ Finish(Returned(_extract_pattern(lower(parser_call.text))))
    /\ UNCHANGED <<catVars, concVars, serverVars>>

PdfNext ==
    \/ ExtractTransactionsFromText
    \/ DeduplicateTransactions
    \/ GeminiParsePdf
    \/ PdfParsePdf
    \/ ParsePdfEndpoint
    \/ ParseReceipt
    \/ ParseReceiptEndpoint
    \/ ParseAmount
    \/ ParseDate
    \/ CategorizeOnce
    \/ ExtractPattern

SpecPdf == PdfInit /\ [][PdfNext]_vars

----------------------------------------------------------------------------
(* Claims about the statement parsers, under SpecPdf.                       *)

Finished(op) == parser_call # <<>> /\ parser_call.op = op /\ parser_call.done

\* C8: when the call of the LLM collaborator fails or its response is not
\* the expected JSON, parsing the document falls back to the regex extractor
\* and returns the transactions that extractor finds in the text.
C8_FallsBackToRegexExtractor ==
    ( /\ Finished("GeminiPDFParser.parse_pdf")
      /\ Len(strip(parser_call.text)) >= 50
      /\ parser_call.response.kind \in {"raises", "malformed"} )
    => parser_call.outcome = Returned(_extract_transactions_from_text(parser_call.text))

\* the matches of all patterns in the text
AllMatches(text) ==
    UNION { Range(finditer(TRANSACTION_PATTERNS[p], text, 1)) :
                p \in 1..Len(TRANSACTION_PATTERNS) }

\* the signed amount _parse_amount reads in a match
ParsedAmount(groups) ==
    _parse_amount(IF _is_amount(groups[2]) THEN groups[2] ELSE groups[3])

\* C9: every transaction the regex extractor produces has amount >= 0 and a
\* type that is expense exactly when the parsed signed amount was negative
\* and income otherwise; the amount is the absolute value of the parsed one.
C9_AmountIsAbsoluteTypeIsSign ==
    Finished("_extract_transactions_from_text") =>
        \A k \in 1..Len(parser_call.outcome.value) :
            LET trans == parser_call.outcome.value[k]
            IN  /\ at_least_zero(trans.amount)
                /\ trans.type \in {"income", "expense"}
                /\ \E groups \in AllMatches(parser_call.text) :
                      /\ ParsedAmount(groups) # None
                      /\ trans.date = _parse_date(groups[1])
                      /\ trans.amount = abs(ParsedAmount(groups))
                      /\ trans.type = "expense" <=> less_than_zero(ParsedAmount(groups))

\* the match parsed: its date and its amount were both read
MatchParsed(groups) ==
    _parse_date(groups[1]) # NoDate /\ ParsedAmount(groups) # None

\* the transaction is the one of this match: its date and the absolute
\* value of its amount
IsTransactionOf(trans, groups) ==
    /\ trans.date = _parse_date(groups[1])
    /\ trans.amount = abs(ParsedAmount(groups))

\* C22: _extract_transactions_from_text never raises; a match whose date or
\* amount fails to parse is discarded and the other matches of all patterns
\* are still extracted: every match that parsed is represented in the
\* result, every transaction of the result is the one of a match that
\* parsed, and empty or non-matching text gives the empty list.
C22_FailedMatchesAreDiscarded ==
    Finished("_extract_transactions_from_text") =>
        LET matches == AllMatches(parser_call.text)
            result == parser_call.outcome.value
        IN  /\ parser_call.outcome.raised = ""
            /\ \A groups \in matches :
                  MatchParsed(groups) =>
                      \E k \in 1..Len(result) : IsTransactionOf(result[k], groups)
            /\ \A k \in 1..Len(result) :
                  \E groups \in matches :
                      MatchParsed(groups) /\ IsTransactionOf(result[k], groups)
            /\ \A i, j \in 1..Len(result) :
                  i # j => transaction_key(result[i]) # transaction_key(result[j])
                            \/ result[i].amount = NaN
            /\ (parser_call.text = <<>> \/ matches = {}) => result = <<>>

\* a text in which one match has a date that does not parse ("13/13/2024")
\* and another match parses: the second is returned
C22_Witness ==
    /\ Finished("_extract_transactions_from_text")
    /\ \E groups \in AllMatches(parser_call.text) :
          groups[1] = <<"1","3","/","1","3","/","2","0","2","4">> /\ ~MatchParsed(groups)
    /\ \E groups \in AllMatches(parser_call.text) : MatchParsed(groups)
    /\ Len(parser_call.outcome.value) >= 1

\* two transactions with the same (date, amount, first 50 characters of
\* description), compared as Python compares the three
SharesKey(a, b) ==
    /\ a.date = b.date
    /\ float_eq(a.amount, b.amount)
    /\ prefix(a.description, 50) = prefix(b.description, 50)

\* the positions of the transactions no earlier transaction shares the key of
FirstOccurrences(transactions) ==
    {i \in 1..Len(transactions) :
        \A j \in 1..(i - 1) : ~SharesKey(transactions[j], transactions[i])}

\* the k-th smallest element of a set of numbers
KthOf(S, k) == CHOOSE i \in S : Cardinality({j \in S : j <= i}) = k

\* C10: _deduplicate_transactions returns a list in which no two transactions
\* share the key (date, amount, first 50 characters of description); for each
\* key the first occurrence in the input is the one kept, the kept
\* transactions are in their input order, and every input key is represented.
C10_DeduplicateKeepsFirstOccurrences ==
    Finished("_deduplicate_transactions") =>
        LET input == parser_call.transactions
            output == parser_call.outcome.value
            firsts == FirstOccurrences(input)
        IN  /\ \A i, j \in 1..Len(output) : i # j => ~SharesKey(output[i], output[j])
            /\ Len(output) = Cardinality(firsts)
            /\ \A k \in 1..Len(output) : output[k] = input[KthOf(firsts, k)]
            /\ \A i \in 1..Len(input) :
                  \E k \in 1..Len(output) :
                      output[k] = input[i] \/ SharesKey(output[k], input[i])

\* a list in which a transaction shares the key of an earlier, different one
\* has been deduplicated: the earlier is kept and the later dropped
C10_Witness ==
    /\ Finished("_deduplicate_transactions")
    /\ LET input == parser_call.transactions
           output == parser_call.outcome.value
       IN  \E i, j \in 1..Len(input) :
              /\ i < j
              /\ SharesKey(input[i], input[j])
              /\ input[i] # input[j]
              /\ Len(output) < Len(input)
              /\ \E k \in 1..Len(output) : output[k] = input[i]
              /\ \A k \in 1..Len(output) : output[k] # input[j]

\* C29: the list PDFParser.parse_pdf returns for a whole document holds no
\* two transactions with the same (date, amount, first 50 characters of
\* description) key, also when the same line is extracted from two pages.
C29_NoDuplicatesInDocument ==
    Finished("PDFParser.parse_pdf") =>
        \A i, j \in 1..Len(parser_call.outcome.value) :
            i # j => ~SharesKey(parser_call.outcome.value[i],
                                parser_call.outcome.value[j])

----------------------------------------------------------------------------
(* Claims about PDFParser._parse_amount and _parse_date, under SpecPdf.     *)

\* the text between a leading "(" and a trailing ")"
Enclosed(text) == SubSeq(text, 2, Len(text) - 1)

\* an amount string that is a bracket pair around an amount that parses to
\* a value that is not negative
IsBracketed(text) ==
    /\ Len(text) >= 2 /\ text[1] = "(" /\ text[Len(text)] = ")"
    /\ at_least_zero(_parse_amount(Enclosed(text)))

\* C11: a raw amount with a leading bracket pair parses to the negative of
\* the value it encloses: "(50.00)" gives -50.00, the magnitude of "50.00"
\* with the sign forced negative.
C11_BracketsNegate ==
    (Finished("_parse_amount") /\ IsBracketed(parser_call.text))
    => parser_call.outcome.value = negated(_parse_amount(Enclosed(parser_call.text)))

\* the canonical decimal rendering of a finite float, as Python's repr gives
\* it for the amounts of the model: sign, digits, a period, digits
CanonicalRendering(x) ==
    (IF x.negative THEN <<"-">> ELSE <<>>)
    \o (IF x.whole = <<>> THEN <<"0">> ELSE x.whole)
    \o <<".">>
    \o (IF x.fraction = <<>> THEN <<"0">> ELSE x.fraction)

\* C12: for every raw amount string that _parse_amount accepts, parsing the
\* canonical decimal rendering of the result gives the same value.
C12_IdempotentOnCanonical ==
    (Finished("_parse_amount") /\ parser_call.outcome.value.kind = "finite")
    => float_eq(_parse_amount(CanonicalRendering(parser_call.outcome.value)),
                parser_call.outcome.value)

\* the amount string without the currency markers $, PLN and z-l-stroke and
\* without spaces
WithoutMarkers(text) ==
    replace(replace(replace(replace(text, <<"$">>, <<>>), <<"P","L","N">>, <<>>),
                    <<"z","U+0142">>, <<>>), <<" ">>, <<>>)

\* the position of the last c in the text, 0 when there is none
LastOf(text, c) ==
    IF \E i \in 1..Len(text) : text[i] = c
    THEN CHOOSE i \in 1..Len(text) :
            text[i] = c /\ \A j \in (i + 1)..Len(text) : text[j] # c
    ELSE 0

\* the number a text with a period as its decimal point denotes: a leading
\* "-" or bracket forces negative and brackets are removed, a leading "+"
\* is stripped; None when what is left is not a number
SignedNumber(text) ==
    LET is_negative == text # <<>> /\ Head(text) \in {"-", "("}
        digits == IF is_negative
                  THEN SelectSeq(text, LAMBDA c : c \notin {"-", "(", ")"})
                  ELSE IF text # <<>> /\ Head(text) = "+" THEN Tail(text)
                  ELSE text
        number == float(digits)
    IN  IF number = ValueError THEN None
        ELSE IF is_negative THEN negated(number)
        ELSE number

\* the text with every `thousands` removed and every `decimal` made a period
WithDecimal(text, decimal, thousands) ==
    [i \in 1..Len(SelectSeq(text, LAMBDA c : c # thousands)) |->
        IF SelectSeq(text, LAMBDA c : c # thousands)[i] = decimal THEN "."
        ELSE SelectSeq(text, LAMBDA c : c # thousands)[i]]

\* C13: when an amount string contains both a comma and a period, the one
\* whose last occurrence is later in the string is the decimal separator and
\* every occurrence of the other is removed as a thousands separator.
C13_LaterSeparatorIsDecimal ==
    Finished("_parse_amount") =>
        LET text == WithoutMarkers(parser_call.text)
            comma == LastOf(text, ",")
            period == LastOf(text, ".")
        IN  (comma # 0 /\ period # 0) =>
                parser_call.outcome.value =
                    IF comma > period
                    THEN SignedNumber(WithDecimal(text, ",", "."))
                    ELSE SignedNumber(WithDecimal(text, ".", ","))

\* "1.234,56" with a currency marker has been parsed: the comma, which is
\* later, is the decimal separator and the value is 1234.56
C13_Witness ==
    /\ Finished("_parse_amount")
    /\ LastOf(parser_call.text, ",") > LastOf(parser_call.text, ".")
    /\ LastOf(parser_call.text, ".") # 0
    /\ parser_call.text # WithoutMarkers(parser_call.text)
    /\ parser_call.outcome.value = float(<<"1","2","3","4",".","5","6">>)

IsIsoDate(text) ==
    /\ Len(text) = 10
    /\ \A i \in 1..10 : IF i \in {5, 8} THEN text[i] = "-" ELSE text[i] \in DigitChars

\* whether the field is a number of one of these lengths
IsNumberOf(field, lengths) ==
    Len(field) \in lengths /\ \A i \in 1..Len(field) : field[i] \in DigitChars

\* whether year, month and day are a day of the calendar
IsCalendarDay(year, month, day) ==
    LET leap == year % 4 = 0 /\ (year % 100 # 0 \/ year % 400 = 0)
        days == IF month = 2 THEN (IF leap THEN 29 ELSE 28)
                ELSE IF month \in {4, 6, 9, 11} THEN 30 ELSE 31
    IN  year >= 1 /\ month \in 1..12 /\ day \in 1..days

\* the date written with `width` digits of the year at least
Rendering(year, month, day, width) ==
    digits_of(year, width) \o <<"-">> \o digits_of(month, 2) \o <<"-">>
        \o digits_of(day, 2)

\* what the claim gives for a date string and the result of _parse_date, the
\* year written with `width` digits at least
ParsedAsClaimed(date_str, result, width) ==
    LET text == strip(date_str)
        dotted == split_on(text, ".")
        slashed == split_on(text, "/")
        dashed == split_on(text, "-")
        fields == IF Len(slashed) = 3 THEN slashed ELSE dashed
        first == int_of(fields[1])
        second == int_of(fields[2])
        year == int_of(fields[3])
        fitting == {k \in 1..Len(date_formats) : strptime(text, date_formats[k]).ok}
    IN  /\ result # NoDate => (width = 4 => IsIsoDate(result))
        \* a dotted date is read day-first
        /\ ( /\ Len(dotted) = 3
             /\ IsNumberOf(dotted[1], {1, 2}) /\ IsNumberOf(dotted[2], {1, 2})
             /\ IsNumberOf(dotted[3], {4}) )
           => result = IF IsCalendarDay(int_of(dotted[3]), int_of(dotted[2]),
                                        int_of(dotted[1]))
                       THEN Rendering(int_of(dotted[3]), int_of(dotted[2]),
                                      int_of(dotted[1]), width)
                       ELSE NoDate
        \* a slash- or dash-separated date with a 4-digit year last
        /\ ( /\ Len(fields) = 3
             /\ IsNumberOf(fields[1], {1, 2}) /\ IsNumberOf(fields[2], {1, 2})
             /\ IsNumberOf(fields[3], {4}) )
           => result = IF IsCalendarDay(year, first, second)
                       THEN Rendering(year, first, second, width)
                       ELSE IF IsCalendarDay(year, second, first)
                       THEN Rendering(year, second, first, width)
                       ELSE NoDate
        \* the first format that parses, None when no format fits
        /\ result = IF fitting = {} THEN NoDate
                    ELSE strftime(strptime(text, date_formats[MinOf(fitting)]))

\* C15: _parse_date returns the first of its formats that parses, rendered
\* as YYYY-MM-DD: a dotted date is read day-first, a slash- or dash-separated
\* date with a 4-digit year last is read month-first whenever its first field
\* is a valid month and its second a valid day of that month and day-first
\* only otherwise, and a string that fits no format gives None.
C15_FirstFormatAsIsoDate ==
    Finished("_parse_date")
    => ParsedAsClaimed(parser_call.text, parser_call.outcome.value, 4)

(* Claims about single calls of categorize, under SpecPdf.                   *)

\* the default keywords that are substrings of the lowercased description,
\* each with its category
MatchedKeywords ==
    [description \in CategorizeDescriptions |->
        {entry \in UNION {{[category |-> default_patterns[i].category,
                             keyword |-> default_patterns[i].keywords[j]] :
                                j \in 1..Len(default_patterns[i].keywords)} :
                           i \in 1..Len(default_patterns)} :
            contains(lower(description), entry.keyword)}]

\* the length of the longest of them, 0 when there is none
LongestMatched ==
    [description \in CategorizeDescriptions |->
        LET lengths == {Len(entry.keyword) : entry \in MatchedKeywords[description]}
        IN  IF lengths = {} THEN 0
            ELSE CHOOSE n \in lengths : \A k \in lengths : k <= n]

\* the description matches a default keyword and no learned rule
DefaultDecides(rules, description) ==
    /\ UsableMatches(rules, description) = {}
    /\ MatchedKeywords[description] # {}

\* C16: when no learned rule matches, categorize returns the category of the
\* longest default keyword that is a substring of the lowercased description,
\* with confidence min(0.6 + 0.01*len(keyword), 0.75); a description whose
\* longest matched keyword is longer gets a confidence at least as high, and
\* strictly higher below the cap of 0.75.
C16_LongestKeywordDecides ==
    ( /\ Finished("categorize")
      /\ DefaultDecides(learned_rules, parser_call.text) ) =>
        /\ \E entry \in MatchedKeywords[parser_call.text] :
              /\ Len(entry.keyword) = LongestMatched[parser_call.text]
              /\ parser_call.outcome
                    = Returned(Match(entry.category,
                                     Minimum(60 + Len(entry.keyword), 75)))
        /\ \A other \in CategorizeDescriptions :
              ( /\ DefaultDecides(learned_rules, other)
                /\ LongestMatched[other] < LongestMatched[parser_call.text] )
              => LET confidence == categorize(learned_rules, other).confidence
                 IN  /\ confidence <= parser_call.outcome.value.confidence
                     /\ confidence < 75
                          => confidence < parser_call.outcome.value.confidence

\* "Whole Foods Market" was categorized by its keyword of 11 characters, with
\* a rule in the store that does not match it, and got a confidence above
\* the one of "Food Mart"
C16_Witness ==
    /\ Finished("categorize")
    /\ parser_call.text = <<"W","h","o","l","e"," ","F","o","o","d","s"," ","M","a","r","k","e","t">>
    /\ learned_rules # <<>>
    /\ DefaultDecides(learned_rules, parser_call.text)
    /\ parser_call.outcome = Returned(Match("Food & Dining", 71))
    /\ categorize(learned_rules, <<"F","o","o","d"," ","M","a","r","t">>).confidence = 64

\* C26 as claimed: categorize returns exactly ("Uncategorized", 0.3) if and
\* only if no learned rule's pattern and no default keyword is a substring
\* of the lowercased description.
C26_UncategorizedIffNoSubstring ==
    Finished("categorize") =>
        ( parser_call.outcome = Returned(Match("Uncategorized", 30))
          <=> /\ PatternMatches(learned_rules, parser_call.text) = {}
              /\ MatchedKeywords[parser_call.text] = {} )

\* C26 as amended: categorize returns exactly ("Uncategorized", 0.3) if and
\* only if no learned rule with a non-empty pattern and a non-empty category
\* has its pattern as a substring of the lowercased description and no
\* default keyword is a substring of it.
C26_UncategorizedIffNoUsableMatch ==
    Finished("categorize") =>
        ( parser_call.outcome = Returned(Match("Uncategorized", 30))
          <=> /\ UsableMatches(learned_rules, parser_call.text) = {}
              /\ MatchedKeywords[parser_call.text] = {} )

\* "XYZ", which holds no keyword, was categorized on a store whose rules do
\* not match it, and came back Uncategorized with confidence 0.3
C26_Witness ==
    /\ Finished("categorize")
    /\ parser_call.text = <<"X","Y","Z">>
    /\ Len(learned_rules) = 2
    /\ \A i \in 1..2 : learned_rules[i].pattern # <<>>
    /\ parser_call.outcome = Returned(Match("Uncategorized", 30))

\* C30: categorize is read-only: the in-memory learned-rule list and the
\* persisted rule file are the same before and after the call, and the
\* result is the one the call gives without an amount, whatever the amount.
C30_CategorizeIsReadOnly ==
    [][Pending("categorize") =>
          /\ learned_rules' = learned_rules
          /\ rules_file' = rules_file
          /\ parser_call'.outcome
                = Returned(categorize_amount(learned_rules, parser_call.text, None))]_vars

\* categorize was called with a negative amount on a store of two rules
\* and returned the category of a learned rule
C30_Witness ==
    /\ Finished("categorize")
    /\ parser_call.amount # None
    /\ less_than_zero(parser_call.amount)
    /\ Len(learned_rules) = 2
    /\ rules_file = JsonFile(learned_rules)
    /\ UsableMatches(learned_rules, parser_call.text) # {}
    /\ parser_call.outcome.value.category = "Shopping"

\* the tokens of length >= 3 of the description after the filler words
\* are removed
QualifyingTokens(description_lower) ==
    SelectSeq(split(re_sub_common_words(description_lower)), LAMBDA word : Len(word) >= 3)

\* C19: the pattern that learn derives from a description is a substring of
\* that description in lowercase; it consists of the first one or two tokens
\* of length >= 3 left after removing the filler words, or the first 30
\* characters of the lowercased description (stripped) when no token
\* qualifies.
C19_PatternIsSubstring ==
    Finished("_extract_pattern") =>
        LET description_lower == lower(parser_call.text)
            pattern == parser_call.outcome.value
            tokens == QualifyingTokens(description_lower)
        IN  /\ contains(description_lower, pattern)
            /\ pattern = IF tokens # <<>>
                         THEN join(SubSeq(tokens, 1, Minimum(2, Len(tokens))))
                         ELSE strip(prefix(description_lower, 30))

(* Claims about the validation of the LLM collaborator's response, under    *)
(* SpecPdf.                                                                 *)

\* the entry carries date, amount, description and type, its amount converts
\* to a number, its type is income, expense or transfer and its date is a
\* string of length >= 8
IsValidEntry(entry) ==
    /\ "json" \notin DOMAIN entry
    /\ \A field \in {"date", "amount", "description", "type"} :
          entry[field].json # "missing"
    /\ \/ entry.amount.json = "number"
       \/ entry.amount.json = "string" /\ float(entry.amount.text) # ValueError
    /\ entry.type.json = "string"
    /\ entry.type.text \in {<<"i","n","c","o","m","e">>, <<"e","x","p","e","n","s","e">>,
                             <<"t","r","a","n","s","f","e","r">>}
    /\ entry.date.json = "string" /\ Len(entry.date.text) >= 8

\* the returned transaction is the entry with the absolute value of its
\* amount, which is at least 0, and with the account of the response if it
\* names one
IsReturnedAs(returned, entry, account) ==
    /\ returned.amount.json = "number"
    /\ at_least_zero(returned.amount.number)
    /\ LET amount == IF entry.amount.json = "number" THEN entry.amount.number
                     ELSE float(entry.amount.text)
       IN  float_eq(returned.amount.number, abs(amount))
    /\ \A field \in {"date", "description", "type", "category"} :
          returned[field] = entry[field]
    /\ returned.account = IF account.json = "string" /\ account.text # <<>>
                          THEN account ELSE entry.account

\* C20: from the LLM collaborator's response exactly the valid transactions
\* are returned, in their order: every returned transaction has amount >= 0
\* (the absolute value), invalid entries are dropped without failing the
\* batch, and when the response names an account every returned transaction
\* carries that account.
C20_OnlyValidTransactions ==
    ( /\ Finished("GeminiPDFParser.parse_pdf")
      /\ parser_call.outcome.raised = ""
      /\ parser_call.response.kind = "object" ) =>
        LET valid == SelectSeq(parser_call.response.transactions, IsValidEntry)
            returned == parser_call.outcome.value
        IN  /\ Len(returned) = Len(valid)
            /\ \A k \in 1..Len(returned) :
                  IsReturnedAs(returned[k], valid[k], parser_call.response.account)

----------------------------------------------------------------------------
(* Claims about the PDF endpoint, under SpecPdf.                            *)

\* what the parser of the request returned to the handler, when it returned
ParserOutput ==
    gemini_parse_pdf(_extract_text_from_pdf(parser_call.document), parser_call.response)

\* the handler got a list of transactions from the parser
ParserReturned ==
    /\ Finished("POST /pdf")
    /\ parser_call.outcome # Raised("HTTPException 400")
    /\ parser_call.pdf_parser = "GeminiPDFParser"
    /\ ParserOutput.raised = ""

\* the transaction is a valid record: a date, a description and a type that
\* are strings, an amount that is a number above 0, a category and an
\* account that are strings or absent
IsValidRecord(trans) ==
    /\ \A field \in {"date", "description", "type"} : trans[field].json = "string"
    /\ trans.amount.json = "number"
    /\ trans.amount.number.kind \in {"finite", "inf"}
    /\ ~trans.amount.number.negative
    /\ ~is_zero(trans.amount.number)
    /\ \A field \in {"category", "account"} :
          trans[field].json \in {"string", "null", "missing"}

\* the response record carries the transaction
IsRecordOf(record, trans) ==
    /\ record.date = trans.date.text
    /\ record.amount = trans.amount.number
    /\ record.description = trans.description.text
    /\ record.type = trans.type.text

\* C23: when the endpoint converts the parser's output, a transaction that
\* fails record validation is dropped and all others are returned in a
\* success response, in their original order.
C23_InvalidRecordsAreDropped ==
    ParserReturned =>
        LET data == ParserOutput.value
            valid == {i \in 1..Len(data) : IsValidRecord(data[i])}
            records == parser_call.outcome.value
        IN  /\ parser_call.outcome.raised = ""
            /\ Len(records) = Cardinality(valid)
            /\ \A k \in 1..Len(records) : IsRecordOf(records[k], data[KthOf(valid, k)])

\* the parser returned four transactions, the first with an amount of 0 and
\* the third with a null description: the response carries the other two
C23_Witness ==
    /\ ParserReturned
    /\ Len(ParserOutput.value) = 4
    /\ is_zero(ParserOutput.value[1].amount.number)
    /\ ParserOutput.value[3].description.json = "null"
    /\ parser_call.outcome.raised = ""
    /\ Len(parser_call.outcome.value) = 2
    /\ parser_call.outcome.value[2].type = <<"i","n","c","o","m","e">>

\* the request carries a file named *.pdf
IsPdfRequest ==
    Finished("POST /pdf") /\ parser_call.outcome # Raised("HTTPException 400")

\* C27: whichever parser variant create_pdf_parser selected, the endpoint's
\* call parse_pdf(path, categories, accounts) is accepted by it and a
\* well-formed statement (one the selected parser extracts a valid
\* transaction from) ends in a success response with transactions.
C27_BothVariantsServeTheEndpoint ==
    /\ ( /\ IsPdfRequest
         /\ parser_call.pdf_parser = "GeminiPDFParser"
         /\ ParserOutput.raised = ""
         /\ \E i \in 1..Len(ParserOutput.value) : IsValidRecord(ParserOutput.value[i]) )
       => parser_call.outcome.raised = "" /\ parser_call.outcome.value # <<>>
    /\ ( /\ IsPdfRequest
         /\ parser_call.pdf_parser = "PDFParser"
         /\ \E i \in 1..Len(pdf_parse_pdf(parser_call.document)) :
               LET amount == pdf_parse_pdf(parser_call.document)[i].amount
               IN  at_least_zero(amount) /\ ~is_zero(amount) )
       => parser_call.outcome.raised = "" /\ parser_call.outcome.value # <<>>

\* the text extracted from the document is empty or shorter than 50
\* characters after trimming
InsufficientText(text) == Len(strip(text)) < 50

\* C21: when the text extracted from a PDF is empty or shorter than 50
\* characters after trimming, parsing the document ends in a failure raised
\* to the caller and no transaction list is returned: by either parser's
\* parse_pdf, and by the endpoint as an error response.
C21_InsufficientTextIsAHardFailure ==
    /\ ( Finished("GeminiPDFParser.parse_pdf") /\ InsufficientText(parser_call.text) )
       => parser_call.outcome.raised # ""
    /\ ( /\ Finished("PDFParser.parse_pdf")
         /\ InsufficientText(_extract_text_from_pdf(parser_call.document)) )
       => parser_call.outcome.raised # ""
    /\ ( IsPdfRequest /\ InsufficientText(_extract_text_from_pdf(parser_call.document)) )
       => parser_call.outcome = Raised("HTTPException 500")

----------------------------------------------------------------------------
(* Claims about the receipt parser and its endpoint, under SpecPdf.         *)

\* \$\s*([\d,]+\.\d{2}): a decimal with the currency sign before it
CurrencyPrefixedDecimal == SubSeq(receipt_patterns.total_patterns[3], 1, 7)

\* the amount candidates of a text: the amounts following the keywords
\* total, amount, sum, balance, grand total and final total, and the
\* currency-prefixed decimals
AmountCandidates(text) ==
    LET floats(matches) ==
            [k \in 1..Len(matches) |-> float(replace(matches[k][1], <<",">>, <<>>))]
    IN  SelectSeq(floats(finditer(receipt_patterns.total_patterns[1], text, 1))
                  \o floats(finditer(receipt_patterns.total_patterns[2], text, 1))
                  \o floats(finditer(CurrencyPrefixedDecimal, text, 1)),
                  LAMBDA amount : amount # ValueError)

\* C25: the receipt total is the maximum numeric value among all amount
\* candidates found in the text (the amounts following the keywords and the
\* currency-prefixed decimals): the amount of the transaction is one of the
\* candidates and no candidate is greater.
C25_TotalIsTheMaximumCandidate ==
    ( Finished("ReceiptParser.parse_receipt") /\ AmountCandidates(parser_call.text) # <<>> )
    => LET candidates == AmountCandidates(parser_call.text)
           amount == parser_call.outcome.value.transaction.amount
       IN  /\ \E k \in 1..Len(candidates) : candidates[k] = amount
           /\ \A k \in 1..Len(candidates) : ~float_less(amount, candidates[k])

\* no pattern of _extract_total finds an amount in the text
NoAmountCandidate(text) ==
    /\ \A k \in 1..3 : finditer(receipt_patterns.total_patterns[k], text, 1) = <<>>
    /\ finditer(receipt_patterns.all_amounts, text, 1) = <<>>

\* C28: when a receipt's text contains no amount candidate, the extracted
\* transaction has amount 0.0 and type expense, and the receipt endpoint
\* returns it in a success response.
C28_NoAmountGivesZeroInASuccessResponse ==
    /\ ( Finished("ReceiptParser.parse_receipt") /\ NoAmountCandidate(parser_call.text) )
       => /\ is_zero(parser_call.outcome.value.transaction.amount)
          /\ parser_call.outcome.value.transaction.type = <<"e","x","p","e","n","s","e">>
    /\ ( /\ Finished("POST /receipt")
         /\ parser_call.outcome # Raised("HTTPException 400")
         /\ NoAmountCandidate(parser_call.text) )
       => /\ parser_call.outcome.raised = ""
          /\ parser_call.outcome.value.transaction.amount
                = parse_receipt(parser_call.text).transaction.amount
          /\ parser_call.outcome.value.transaction.type = <<"e","x","p","e","n","s","e">>

----------------------------------------------------------------------------
(* main.py and routers: the service under uvicorn.run(app), one process     *)
(* with one event loop thread that runs the async handlers, and the         *)
(* executor of routers/pdf_parser.py                                        *)

\* executor = ThreadPoolExecutor(max_workers=4)
max_workers == 4

\* no request is sent after this many
MaxRequests == 5

\* a request; valid is whether the name of its file passes the handler's check
Request(kind, valid) == [kind |-> kind, valid |-> valid, state |-> "waiting", thread |-> ""]

\* the requests whose extraction is in progress
Extracting == {r \in 1..Len(requests) : requests[r].state = "extracting"}

ServerInit ==
    /\ NoRequests
    /\ learned_rules = <<>>
    /\ rules_file = AbsentFile
    /\ call = Call("init", <<>>, "", NoMatch)
    /\ before = <<>>
    /\ threads = <<>>
    /\ start_rules = <<>>
    /\ parser_call = <<>>

\* a client sends POST /parse/pdf or POST /parse/receipt
Arrive(kind, valid) ==
    /\ Len(requests) < MaxRequests
    /\ requests' = Append(requests, Request(kind, valid))
    /\ UNCHANGED <<work_queue, loop_running, catVars, concVars, pdfVars>>

\* the event loop runs the handler parse_pdf of a request up to its await of
\* loop.run_in_executor(executor, pdf_parser.parse_pdf, ...), which puts the
\* call in the queue of the pool and suspends the handler; the handler of a
\* file that is not named *.pdf raises HTTPException 400 before
HandlePdf(r) ==
    /\ loop_running = 0
    /\ requests[r].kind = "pdf" /\ requests[r].state = "waiting"
    /\ IF requests[r].valid
       THEN /\ requests' = [requests EXCEPT ![r].state = "queued"]
            /\ work_queue' = Append(work_queue, r)
       ELSE /\ requests' = [requests EXCEPT ![r].state = "done"]
            /\ UNCHANGED work_queue
    /\ UNCHANGED <<loop_running, catVars, concVars, pdfVars>>

\* a thread of the pool, of which there are at most max_workers, takes the
\* next call of the queue and starts pdf_parser.parse_pdf
WorkerTake ==
    /\ work_queue # <<>>
    /\ Cardinality({r \in Extracting : requests[r].thread = "worker"}) < max_workers
    /\ requests' = [requests EXCEPT ![Head(work_queue)].state = "extracting",
                                    ![Head(work_queue)].thread = "worker"]
    /\ work_queue' = Tail(work_queue)
    /\ UNCHANGED <<loop_running, catVars, concVars, pdfVars>>

\* pdf_parser.parse_pdf returns or raises in its thread of the pool, which
\* sets the future the handler awaits
WorkerFinish(r) ==
    /\ r \in Extracting /\ requests[r].thread = "worker"
    /\ requests' = [requests EXCEPT ![r].state = "extracted", ![r].thread = ""]
    /\ UNCHANGED <<work_queue, loop_running, catVars, concVars, pdfVars>>

\* the event loop resumes the handler parse_pdf, which converts the
\* transactions and responds (lines 73-123)
ResumePdf(r) ==
    /\ loop_running = 0
    /\ requests[r].state = "extracted"
    /\ requests' = [requests EXCEPT ![r].state = "done"]
    /\ UNCHANGED <<work_queue, loop_running, catVars, concVars, pdfVars>>

\* the event loop runs the handler parse_receipt of a request up to its
\* call receipt_parser.parse_receipt(tmp_file_path) at line 45, a plain call
\* in the thread of the event loop; the handler of a file that is not named
\* as an image raises HTTPException 400 before
HandleReceipt(r) ==
    /\ loop_running = 0
    /\ requests[r].kind = "receipt" /\ requests[r].state = "waiting"
    /\ IF requests[r].valid
       THEN /\ requests' = [requests EXCEPT ![r].state = "extracting",
                                            ![r].thread = "event loop"]
            /\ loop_running' = r
       ELSE /\ requests' = [requests EXCEPT ![r].state = "done"]
            /\ UNCHANGED loop_running
    /\ UNCHANGED <<work_queue, catVars, concVars, pdfVars>>

\* receipt_parser.parse_receipt returns or raises, and the handler responds
\* (lines 47-77) and gives up the thread of the event loop
FinishReceipt(r) ==
    /\ r \in Extracting /\ requests[r].thread = "event loop"
    /\ requests' = [requests EXCEPT ![r].state = "done", ![r].thread = ""]
    /\ loop_running' = 0
    /\ UNCHANGED <<work_queue, catVars, concVars, pdfVars>>

ServerNext ==
    \/ \E kind \in {"pdf", "receipt"}, valid \in BOOLEAN : Arrive(kind, valid)
    \/ \E r \in 1..Len(requests) : HandlePdf(r)
    \/ WorkerTake
    \/ \E r \in 1..Len(requests) : WorkerFinish(r)
    \/ \E r \in 1..Len(requests) : ResumePdf(r)
    \/ \E r \in 1..Len(requests) : HandleReceipt(r)
    \/ \E r \in 1..Len(requests) : FinishReceipt(r)

SpecServer == ServerInit /\ [][ServerNext]_vars

----------------------------------------------------------------------------
(* Claims about the service, under SpecServer.                              *)

\* C24: document extraction never runs on the request-handling thread: every
\* extraction in progress, of a PDF statement or of a receipt image, runs on
\* a thread of the worker pool; at most 4 extractions are in progress at
\* once; and while an extraction is in flight the thread of the event loop
\* is free to accept another request.
C24_ExtractionRunsOnTheWorkerPool ==
    /\ \A r \in Extracting : requests[r].thread = "worker"
    /\ Cardinality(Extracting) <= max_workers
    /\ Extracting # {} => loop_running = 0

====
